---- MODULE Spec2Model ----
(***************************************************************************)
(* Bulk import/export job processing: the ingestion pipeline               *)
(* (importProcessor), the worker poll loop (importWorker) and job creation *)
(* (imports.service / exports.service), modelled as three state machines   *)
(* over disjoint groups of variables.                                      *)
(***************************************************************************)
EXTENDS Integers, Sequences, FiniteSets, TLC

VARIABLES
    \* ---- ingestion pipeline: one run of processImportJob(jobId) ----
    importJob,      \* the ImportJob row of the job being processed
    importErrors,   \* the ImportError rows of the job, in insertion order
    upsertLog,      \* every upsert attempted on the domain tables, in call order
    countUpdates,   \* every {increment} counter update applied to the row
    task,           \* the frame of processImportJob and of its callees
    env,            \* the file system and the source as read so far
    faults,         \* store calls (job rows, ImportError rows) that have thrown so far
    \* ---- worker poll loop ----
    isRunning, activeJobs, loop, jobStatus, tasks,
    \* ---- job creation ----
    importJobRows, exportJobRows, requests,
    \* ---- domain records: upserts, export formatting, re-import ----
    users,          \* the User table, in id order
    articles,       \* the Article table, in id order
    comments,       \* the Comment table, in id order
    last,           \* the last operation on the tables and what it produced
    \* ---- export: processExportJob(jobId) and streamExport ----
    exportJob,      \* the ExportJob row and the request that made it
    storeRows,      \* the rows of the exported table, in id order
    runs,           \* the frames of the export runs
    dispatch,       \* activeJobs entry of the job's id and the import task sharing it
    \* ---- concurrent imports: the counters of several ImportJob rows ----
    counterRows,    \* the ImportJob rows, by job id
    counterTasks,   \* the frame of each job's process*File and processBatch
    \* ---- job status: getImportJobStatus ----
    errorRows,      \* createdAt of the job's ImportError rows, in creation order
    response,       \* the errors of the last status response
    \* ---- record validation: validateRecord ----
    validated,      \* the last record given to a schema and the outcome
    \* ---- the worker under repeated startWorker / stopWorker calls ----
    loops           \* the while loops of the startWorker calls made so far

importVars == <<importJob, importErrors, upsertLog, countUpdates, task, env>>
workerVars == <<isRunning, activeJobs, loop, jobStatus, tasks>>
createVars == <<importJobRows, exportJobRows, requests>>
recordVars == <<users, articles, comments, last>>
\* The variables of the machines added after the first three.
exportVars == <<exportJob, storeRows, runs, dispatch>>
counterVars == <<counterRows, counterTasks>>
statusVars == <<errorRows, response>>
laterVars == <<recordVars, exportVars, counterVars, statusVars, validated, loops>>
vars == <<importVars, workerVars, createVars, faults, laterVars>>

\* ------------------------------------------------------------------ bounds
\* Lines of a streamed source / elements of a JSON array.
MaxLines == 3
\* Store calls on the job row or the ImportError table that may throw in one run.
MaxFaults == 1
\* The flush threshold of the ingestion loops (1000 in the source), scaled down
\* so that full batches, partial batches and exact multiples all occur.
BATCH_SIZE == 2
\* ImportJob rows and ExportJob rows that exist over a run of the worker; each
\* table numbers its rows from 1.
NImports == 1
NExports == 2
\* Creation requests over a run of the API, and the idempotency keys they use.
NRequests == 3
NKeys == 2
\* Rows of the exported table, and export runs of one job.
MaxRows == 3
NRuns == 2
\* Writes of other requests to the exported table while an export pages.
MaxChanges == 2

\* Import jobs running at the same time, and records of each one's source.
NJobs == 3
MaxRecords == 2

\* ImportError rows of a job, and errors returned by the status query (100 in
\* the code).
MaxErrorRows == 5
ErrorsTake == 2

\* Comments created over a run (every comment import creates a row).
MaxComments == 1

\* ------------------------------------------------------ program constants
MAX_CONCURRENT_JOBS == 3

\* ------------------------------------------------------------- vocabulary
Formats == {"ndjson", "csv", "json"}
\* job.filePath: null, a local path or an http(s) URL, with the extension that
\* decides the format.
FilePaths == [kind : {"null", "local", "url"}, ext : Formats]
\* What an upsert can do: succeed, or throw (the repository's "Foreign key
\* violation" Error; any other exception takes the same path through the
\* catch of processBatch).
UpsertOutcomes == {"ok", "fk"}

\* error.name as recordError reads it (ZodError is special-cased).
ErrorTypeOf(o) ==
    CASE o = "validation" -> "VALIDATION_ERROR"
      [] o = "malformed"  -> "SyntaxError"
      [] o = "fk"         -> "Error"
      [] OTHER            -> "PrismaClientKnownRequestError"

InitTask ==
    [ pc |-> "start", outcome |-> "pending", raised |-> "none",
      downloadedFile |-> FALSE, format |-> "none",
      recordIndex |-> 0, currentIndex |-> 0, i |-> 0,
      successCount |-> 0, errorCount |-> 0, batch |-> <<>>,
      ret |-> "none", bi |-> 1, success |-> 0, error |-> 0,
      caught |-> "none",
      \* history: what the store held when processBatch was entered
      snap |-> [errors |-> 0, upserts |-> 0, updates |-> 0,
                successCount |-> 0, errorCount |-> 0] ]

InitEnv ==
    [ stagingFile |-> FALSE, unlinked |-> {}, fileLines |-> 0,
      source |-> <<>>, sourceError |-> "none",
      \* the keys of the map of metricsTracker (the job of the pipeline is job 1)
      metrics |-> {} ]

InitImportVars ==
    /\ importJob \in [ status : {"pending"}, totalRecords : {0},
                       successCount : {0}, errorCount : {0},
                       startedAt : {FALSE}, completedAt : {FALSE},
                       filePath : FilePaths ]
    /\ importErrors = <<>>
    /\ upsertLog = <<>>
    /\ countUpdates = <<>>
    /\ task = InitTask
    /\ env = InitEnv
    /\ faults = 0

\* The domain tables at rest.
IdleRecordVars ==
    /\ users = <<>>
    /\ articles = <<>>
    /\ comments = <<>>
    /\ last = <<>>

IdleLaterVars ==
    /\ IdleRecordVars
    /\ exportJob = <<>> /\ storeRows = <<>> /\ runs = <<>> /\ dispatch = <<>>
    /\ counterRows = <<>> /\ counterTasks = <<>>
    /\ errorRows = <<>> /\ response = <<>>
    /\ validated = <<>>
    /\ loops = <<>>

\* ---------------------------------------------------------- repositories
\* repo.updateJobStatus: an unconditional update of status (and timestamps).
UpdateJobStatus(job, status) ==
    IF status = "processing"
    THEN [job EXCEPT !.status = status, !.startedAt = TRUE]
    ELSE [job EXCEPT !.status = status, !.completedAt = TRUE]

\* repo.updateJobCounts with {increment: n} operands.
IncrementCounts_Overwrite(job, s, e) ==
    [job EXCEPT !.successCount = s, !.errorCount = e]

IncrementCounts(job, s, e) ==
    [job EXCEPT !.successCount = @ + s, !.errorCount = @ + e]

\* repo.createImportError as called by recordError.
CreateImportError(rows, recordIndex, errorType) ==
    Append(rows, [recordIndex |-> recordIndex, errorType |-> errorType])

\* ------------------------------------------------------- processImportJob
CanFail == faults < MaxFaults

\* metricsTracker.startTracking(jobId) and the first store call, made before
\* the try block: a failure rejects the task without running catch or finally.
ProcessImportJob_Start ==
    /\ task.pc = "start"
    /\ env' = [env EXCEPT !.metrics = @ \cup {1}]
    /\ \/ /\ importJob' = UpdateJobStatus(importJob, "processing")
          /\ task' = [task EXCEPT !.pc = "resolve"]
          /\ UNCHANGED faults
       \/ /\ CanFail
          /\ faults' = faults + 1
          /\ task' = [task EXCEPT !.pc = "done", !.outcome = "rejected",
                                  !.raised = "store"]
          /\ UNCHANGED importJob
    /\ UNCHANGED <<importErrors, upsertLog, countUpdates>>
    /\ UNCHANGED <<workerVars, createVars, laterVars>>

\* A source-level error thrown inside the try block of processImportJob.
SourceError(kind) ==
    /\ task' = [task EXCEPT !.pc = "catch", !.raised = "source"]
    /\ env' = [env EXCEPT !.sourceError = kind]

FirstPc(ext) == IF ext = "ndjson" THEN "ndjsonRead"
                ELSE IF ext = "csv" THEN "csvRead" ELSE "jsonParse"

\* Lines 417-438: file path check, download, existence check, format dispatch.
ProcessImportJob_Resolve ==
    /\ task.pc = "resolve"
    /\ \/ /\ importJob.filePath.kind = "null"
          /\ SourceError("nopath")
       \/ /\ importJob.filePath.kind = "url"
          /\ \E d \in {"ok", "non200", "neterror"} :
                IF d = "ok"
                THEN \E n \in 0..MaxLines :
                       /\ task' = [task EXCEPT !.pc = FirstPc(importJob.filePath.ext),
                                               !.format = importJob.filePath.ext,
                                               !.downloadedFile = TRUE]
                       /\ env' = [env EXCEPT !.stagingFile = TRUE, !.fileLines = n]
                ELSE /\ task' = [task EXCEPT !.pc = "catch", !.raised = "source"]
                     /\ env' = [env EXCEPT !.sourceError = "download",
                                           !.stagingFile = (d = "non200")]
       \/ /\ importJob.filePath.kind = "local"
          /\ \E exists \in BOOLEAN :
                IF exists
                THEN \E n \in 0..MaxLines :
                       /\ task' = [task EXCEPT !.pc = FirstPc(importJob.filePath.ext),
                                               !.format = importJob.filePath.ext]
                       /\ env' = [env EXCEPT !.fileLines = n]
                ELSE SourceError("missing")
    /\ UNCHANGED <<importJob, importErrors, upsertLog, countUpdates, faults>>
    /\ UNCHANGED <<workerVars, createVars, laterVars>>

\* ------------------------------------------------------------ processBatch
LoopPc(format) == IF format = "ndjson" THEN "ndjsonRead"
                  ELSE IF format = "csv" THEN "csvRead" ELSE "jsonLoop"

\* The call processBatch(jobId, resource, batch) from `from` ("loop": inside the
\* per-record try of an ingestion loop; "final": the flush after the loop).
CallProcessBatch(t, from) ==
    [t EXCEPT !.pc = "batchItem", !.ret = from, !.bi = 1,
              !.success = 0, !.error = 0,
              !.snap = [errors |-> Len(importErrors), upserts |-> Len(upsertLog),
                        updates |-> Len(countUpdates),
                        successCount |-> importJob.successCount,
                        errorCount |-> importJob.errorCount]]

\* An exception leaving processBatch. In the loops the call sits inside the
\* per-record try, so the exception is caught there as the current record's
\* error (errorCount++ precedes recordError in the NDJSON and CSV loops and
\* follows it in the JSON loop); from the final flush it reaches the catch of
\* processImportJob.
ThrowFromBatch(t) ==
    IF t.ret = "loop"
    THEN [t EXCEPT !.pc = "recErr", !.caught = "store",
                   !.errorCount = IF t.format = "json" THEN @ ELSE @ + 1]
    ELSE [t EXCEPT !.pc = "catch", !.raised = "store"]

AfterItem(t) ==
    [t EXCEPT !.bi = @ + 1,
              !.pc = IF t.bi + 1 > Len(t.batch) THEN "batchCounts" ELSE "batchItem"]

\* One iteration of `for (const item of batch)`: the upsert and, when it
\* throws, recordError.
ProcessBatch_Item ==
    /\ task.pc = "batchItem"
    /\ LET item == task.batch[task.bi] IN
       \E o \in UpsertOutcomes :
          /\ upsertLog' = Append(upsertLog, [recordIndex |-> item, ok |-> (o = "ok")])
          /\ IF o = "ok"
             THEN /\ task' = AfterItem([task EXCEPT !.success = @ + 1])
                  /\ UNCHANGED <<importErrors, faults>>
             ELSE \/ /\ importErrors' = CreateImportError(importErrors, item, ErrorTypeOf(o))
                     /\ task' = AfterItem([task EXCEPT !.error = @ + 1])
                     /\ UNCHANGED faults
                  \/ /\ CanFail
                     /\ faults' = faults + 1
                     /\ task' = ThrowFromBatch(task)
                     /\ UNCHANGED importErrors
    /\ UNCHANGED <<importJob, countUpdates, env>>
    /\ UNCHANGED <<workerVars, createVars, laterVars>>

\* The counter update that ends processBatch.
ProcessBatch_Counts ==
    /\ task.pc = "batchCounts"
    /\ \/ /\ importJob' = IncrementCounts(importJob, task.success, task.error)
          /\ countUpdates' = Append(countUpdates,
                                [success |-> task.success, error |-> task.error])
          /\ task' = [task EXCEPT !.pc = "batchRet"]
          /\ UNCHANGED faults
       \/ /\ CanFail
          /\ faults' = faults + 1
          /\ task' = ThrowFromBatch(task)
          /\ UNCHANGED <<importJob, countUpdates>>
    /\ UNCHANGED <<importErrors, upsertLog, env>>
    /\ UNCHANGED <<workerVars, createVars, laterVars>>

\* return { success, error } and the caller's continuation:
\* successCount += result.success; errorCount += result.error; batch = [].
ProcessBatch_Return ==
    /\ task.pc = "batchRet"
    /\ task' = [task EXCEPT !.successCount = @ + task.success,
                            !.errorCount = @ + task.error,
                            !.batch = IF task.ret = "loop" THEN <<>> ELSE @,
                            !.pc = IF task.ret = "loop" THEN LoopPc(task.format)
                                   ELSE "finalCounts"]
    /\ UNCHANGED <<importJob, importErrors, upsertLog, countUpdates, env, faults>>
    /\ UNCHANGED <<workerVars, createVars, laterVars>>

\* ---------------------------------------------------- the ingestion loops
\* The pc after the per-record catch has recorded the error: the loop goes on.
AfterRecordError_Abort(t) == "catch"

AfterRecordError(t) == LoopPc(t.format)

\* `await recordError(...)` in the per-record catch of a loop.
RecordError_Loop ==
    /\ task.pc = "recErr"
    /\ \/ /\ importErrors' = CreateImportError(importErrors, task.currentIndex,
                                               ErrorTypeOf(task.caught))
          /\ task' = [task EXCEPT !.pc = AfterRecordError(task),
                                  !.raised = IF AfterRecordError(task) = "catch"
                                             THEN "record" ELSE @,
                                  !.caught = "none",
                                  !.errorCount = IF task.format = "json"
                                                 THEN @ + 1 ELSE @]
          /\ UNCHANGED faults
       \/ /\ CanFail
          /\ faults' = faults + 1
          /\ task' = [task EXCEPT !.pc = "catch", !.raised = "store"]
          /\ UNCHANGED importErrors
    /\ UNCHANGED <<importJob, upsertLog, countUpdates, env>>
    /\ UNCHANGED <<workerVars, createVars, laterVars>>

\* A validated record is pushed; a full batch is flushed from inside the try.
PushRecord(t) ==
    LET pushed == [t EXCEPT !.batch = Append(@, t.currentIndex)] IN
    IF Len(pushed.batch) >= BATCH_SIZE THEN CallProcessBatch(pushed, "loop")
    ELSE pushed

FailRecord_AlsoBatched(t, kind) ==
    [t EXCEPT !.errorCount = @ + 1, !.caught = kind, !.pc = "recErr",
              !.batch = Append(@, t.currentIndex)]

\* A record that fails JSON.parse or validateRecord inside the try of the
\* NDJSON and CSV loops: errorCount++ and then recordError.
FailRecord(t, kind) ==
    [t EXCEPT !.errorCount = @ + 1, !.caught = kind, !.pc = "recErr"]

\* processNdjsonFile: one line of the stream.
ProcessNdjsonFile_Line ==
    /\ task.pc = "ndjsonRead"
    /\ Len(env.source) < env.fileLines
    /\ \E kind \in {"blank", "malformed", "invalid", "valid"} :
          /\ env' = [env EXCEPT !.source = Append(@, kind)]
          /\ IF kind = "blank"
             THEN UNCHANGED task
             ELSE LET t == [task EXCEPT !.currentIndex = task.recordIndex,
                                        !.recordIndex = @ + 1] IN
                  task' = CASE kind = "malformed" -> FailRecord(t, "malformed")
                            [] kind = "invalid"   -> FailRecord(t, "validation")
                            [] OTHER              -> PushRecord(t)
    /\ UNCHANGED <<importJob, importErrors, upsertLog, countUpdates, faults>>
    /\ UNCHANGED <<workerVars, createVars, laterVars>>

\* End of a stream or of the array: the remaining batch is flushed outside the
\* per-record try.
EndOfRecords(t) ==
    IF Len(t.batch) > 0 THEN CallProcessBatch(t, "final")
    ELSE [t EXCEPT !.pc = "finalCounts"]

ProcessNdjsonFile_End ==
    /\ task.pc = "ndjsonRead"
    /\ Len(env.source) = env.fileLines
    /\ task' = EndOfRecords(task)
    /\ UNCHANGED <<importJob, importErrors, upsertLog, countUpdates, env, faults>>
    /\ UNCHANGED <<workerVars, createVars, laterVars>>

\* processCsvFile: one line of the stream. The first non-blank line is the
\* header and takes recordIndex 0.
ProcessCsvFile_Line ==
    /\ task.pc = "csvRead"
    /\ Len(env.source) < env.fileLines
    /\ \E kind \in {"blank", "invalid", "valid"} :
          IF kind = "blank"
          THEN /\ env' = [env EXCEPT !.source = Append(@, "blank")]
               /\ UNCHANGED task
          ELSE IF task.recordIndex = 0
          THEN /\ env' = [env EXCEPT !.source = Append(@, "header")]
               /\ task' = [task EXCEPT !.recordIndex = @ + 1]
          ELSE /\ env' = [env EXCEPT !.source = Append(@, kind)]
               /\ LET t == [task EXCEPT !.currentIndex = task.recordIndex,
                                        !.recordIndex = @ + 1] IN
                  task' = IF kind = "invalid" THEN FailRecord(t, "validation")
                          ELSE PushRecord(t)
    /\ UNCHANGED <<importJob, importErrors, upsertLog, countUpdates, faults>>
    /\ UNCHANGED <<workerVars, createVars, laterVars>>

ProcessCsvFile_End ==
    /\ task.pc = "csvRead"
    /\ Len(env.source) = env.fileLines
    /\ task' = EndOfRecords(task)
    /\ UNCHANGED <<importJob, importErrors, upsertLog, countUpdates, env, faults>>
    /\ UNCHANGED <<workerVars, createVars, laterVars>>

\* processJsonFile: readFile, JSON.parse and the Array.isArray check.
ProcessJsonFile_Parse ==
    /\ task.pc = "jsonParse"
    /\ \E doc \in {"unparsable", "nonarray", "array"} :
          IF doc = "array"
          THEN /\ task' = [task EXCEPT !.pc = "jsonTotal"]
               /\ UNCHANGED env
          ELSE SourceError(doc)
    /\ UNCHANGED <<importJob, importErrors, upsertLog, countUpdates, faults>>
    /\ UNCHANGED <<workerVars, createVars, laterVars>>

\* updateJobCounts(jobId, { totalRecords: records.length }).
ProcessJsonFile_Total ==
    /\ task.pc = "jsonTotal"
    /\ \/ /\ importJob' = [importJob EXCEPT !.totalRecords = env.fileLines]
          /\ task' = [task EXCEPT !.pc = "jsonLoop"]
          /\ UNCHANGED faults
       \/ /\ CanFail
          /\ faults' = faults + 1
          /\ task' = [task EXCEPT !.pc = "catch", !.raised = "store"]
          /\ UNCHANGED importJob
    /\ UNCHANGED <<importErrors, upsertLog, countUpdates, env>>
    /\ UNCHANGED <<workerVars, createVars, laterVars>>

\* One element of the array; i is the loop counter, advanced here because the
\* body only reads it as the record's index.
ProcessJsonFile_Record ==
    /\ task.pc = "jsonLoop"
    /\ task.i < env.fileLines
    /\ \E kind \in {"invalid", "valid"} :
          /\ env' = [env EXCEPT !.source = Append(@, kind)]
          /\ LET t == [task EXCEPT !.currentIndex = task.i, !.i = @ + 1] IN
             task' = IF kind = "invalid"
                     THEN [t EXCEPT !.caught = "validation", !.pc = "recErr"]
                     ELSE PushRecord(t)
    /\ UNCHANGED <<importJob, importErrors, upsertLog, countUpdates, faults>>
    /\ UNCHANGED <<workerVars, createVars, laterVars>>

ProcessJsonFile_End ==
    /\ task.pc = "jsonLoop"
    /\ task.i = env.fileLines
    /\ task' = EndOfRecords(task)
    /\ UNCHANGED <<importJob, importErrors, upsertLog, countUpdates, env, faults>>
    /\ UNCHANGED <<workerVars, createVars, laterVars>>

\* totalRecords as processCsvFile computes it: the header took index 0.
CsvTotalRecords(recordIndex) == recordIndex - 1

\* The counts written by the last updateJobCounts of each process*File.
FinalCounts(job, t) ==
    CASE t.format = "ndjson" ->
            [job EXCEPT !.totalRecords = t.recordIndex,
                        !.successCount = t.successCount,
                        !.errorCount = t.errorCount]
      [] t.format = "csv" ->
            [job EXCEPT !.totalRecords = CsvTotalRecords(t.recordIndex),
                        !.successCount = t.successCount,
                        !.errorCount = t.errorCount]
      [] OTHER ->
            [job EXCEPT !.successCount = t.successCount,
                        !.errorCount = t.errorCount]

ProcessFile_FinalCounts ==
    /\ task.pc = "finalCounts"
    /\ \/ /\ importJob' = FinalCounts(importJob, task)
          /\ task' = [task EXCEPT !.pc = "complete"]
          /\ UNCHANGED faults
       \/ /\ CanFail
          /\ faults' = faults + 1
          /\ task' = [task EXCEPT !.pc = "catch", !.raised = "store"]
          /\ UNCHANGED importJob
    /\ UNCHANGED <<importErrors, upsertLog, countUpdates, env>>
    /\ UNCHANGED <<workerVars, createVars, laterVars>>

\* ---------------------------------------- processImportJob: the way out
\* updateJobStatus(jobId, 'completed', ...), still inside the try.
ProcessImportJob_Complete ==
    /\ task.pc = "complete"
    /\ \/ /\ importJob' = UpdateJobStatus(importJob, "completed")
          /\ task' = [task EXCEPT !.pc = "getJob"]
          /\ UNCHANGED faults
       \/ /\ CanFail
          /\ faults' = faults + 1
          /\ task' = [task EXCEPT !.pc = "catch", !.raised = "store"]
          /\ UNCHANGED importJob
    /\ UNCHANGED <<importErrors, upsertLog, countUpdates, env>>
    /\ UNCHANGED <<workerVars, createVars, laterVars>>

\* repo.getJob(jobId) for the final log line, still inside the try.
ProcessImportJob_GetJob ==
    /\ task.pc = "getJob"
    /\ \/ /\ task' = [task EXCEPT !.pc = "finally"]
          /\ UNCHANGED faults
       \/ /\ CanFail
          /\ faults' = faults + 1
          /\ task' = [task EXCEPT !.pc = "catch", !.raised = "store"]
    /\ UNCHANGED <<importJob, importErrors, upsertLog, countUpdates, env>>
    /\ UNCHANGED <<workerVars, createVars, laterVars>>

\* The job row as the catch block leaves it.
MarkFailed_Skip(job) == job

MarkFailed(job) == UpdateJobStatus(job, "failed")

\* catch (error): updateJobStatus(jobId, 'failed', ...) and rethrow.
ProcessImportJob_Catch ==
    /\ task.pc = "catch"
    /\ \/ /\ importJob' = MarkFailed(importJob)
          /\ task' = [task EXCEPT !.pc = "finally"]
          /\ UNCHANGED faults
       \/ /\ CanFail
          /\ faults' = faults + 1
          /\ task' = [task EXCEPT !.pc = "finally", !.raised = "store"]
          /\ UNCHANGED importJob
    /\ UNCHANGED <<importErrors, upsertLog, countUpdates, env>>
    /\ UNCHANGED <<workerVars, createVars, laterVars>>

\* finally: metricsTracker.finishTracking(jobId), then the downloaded file is
\* removed; the task then settles.
ProcessImportJob_Finally ==
    /\ task.pc = "finally"
    /\ LET actualFilePath == IF importJob.filePath.kind = "url" THEN "staging"
                             ELSE "local"
           finished == [env EXCEPT !.metrics = @ \ {1}]
       IN env' = IF task.downloadedFile
                 THEN [finished EXCEPT !.stagingFile = FALSE,
                                       !.unlinked = @ \cup {actualFilePath}]
                 ELSE finished
    /\ task' = [task EXCEPT !.pc = "done",
                            !.outcome = IF task.raised = "none" THEN "resolved"
                                        ELSE "rejected"]
    /\ UNCHANGED <<importJob, importErrors, upsertLog, countUpdates, faults>>
    /\ UNCHANGED <<workerVars, createVars, laterVars>>

NextImport ==
    \/ ProcessImportJob_Start
    \/ ProcessImportJob_Resolve
    \/ ProcessNdjsonFile_Line
    \/ ProcessNdjsonFile_End
    \/ ProcessCsvFile_Line
    \/ ProcessCsvFile_End
    \/ ProcessJsonFile_Parse
    \/ ProcessJsonFile_Total
    \/ ProcessJsonFile_Record
    \/ ProcessJsonFile_End
    \/ RecordError_Loop
    \/ ProcessBatch_Item
    \/ ProcessBatch_Counts
    \/ ProcessBatch_Return
    \/ ProcessFile_FinalCounts
    \/ ProcessImportJob_Complete
    \/ ProcessImportJob_GetJob
    \/ ProcessImportJob_Catch
    \/ ProcessImportJob_Finally

\* The worker and job-creation variables at rest.
IdleWorkerVars ==
    /\ isRunning = FALSE
    /\ activeJobs = {}
    /\ loop = [ pc |-> "init", availableSlots |-> 0, notIn |-> {},
                pendingImports |-> <<>> ]
    /\ jobStatus = <<>>
    /\ tasks = <<>>

IdleCreateVars ==
    /\ importJobRows = <<>>
    /\ exportJobRows = <<>>
    /\ requests = <<>>

InitImport == InitImportVars /\ IdleWorkerVars /\ IdleCreateVars /\ IdleLaterVars

SpecImport == InitImport /\ [][NextImport]_vars

\* ------------------------------------------------------------ the worker
\* A job is named by its table and its id in that table.
Jobs == ({"import"} \X (1..NImports)) \cup ({"export"} \X (1..NExports))

IdOf(j) == j[2]

\* The first n elements of the ascending enumeration of a set of job ids
\* (orderBy createdAt asc, take n; rows are created in id order).
RECURSIVE TakeAsc(_, _)
TakeAsc(ids, n) ==
    IF n <= 0 \/ ids = {} THEN <<>>
    ELSE LET m == CHOOSE x \in ids : \A y \in ids : x <= y
         IN <<m>> \o TakeAsc(ids \ {m}, n - 1)

\* prisma.<table>.findMany({where: {status: 'pending', id: {notIn}}, take}).
FindPending(table, notIn, take) ==
    TakeAsc({IdOf(j) : j \in {x \in Jobs : /\ x[1] = table
                                          /\ jobStatus[x] = "pending"
                                          /\ IdOf(x) \notin notIn}}, take)

Range(seq) == {seq[k] : k \in 1..Len(seq)}

InFlightOf(j) == tasks[j].starting + tasks[j].processing

\* The frame of the while loop of startWorker and of pollAndProcessJobs.
InitLoop ==
    [ pc |-> "init", availableSlots |-> 0, notIn |-> {}, pendingImports |-> <<>> ]

\* When the worker starts, every row of both tables is pending.
InitWorkerVars ==
    /\ isRunning = FALSE
    /\ activeJobs = {}
    /\ loop = InitLoop
    /\ jobStatus = [j \in Jobs |-> "pending"]
    /\ tasks = [j \in Jobs |-> [starting |-> 0, processing |-> 0]]

\* A capacity check that never passes.
PollBegin_AlwaysFull(l) == [l EXCEPT !.pc = "sleep"]

\* pollAndProcessJobs up to its first await: the capacity check and the query
\* for pending import jobs, whose notIn list is the active set of this moment.
PollBegin(l) ==
    IF Cardinality(activeJobs) >= MAX_CONCURRENT_JOBS
    THEN [l EXCEPT !.pc = "sleep"]
    ELSE [l EXCEPT !.pc = "queryImports",
                   !.availableSlots = MAX_CONCURRENT_JOBS - Cardinality(activeJobs),
                   !.notIn = activeJobs]

\* startWorker, called once by the worker process: sets the run flag and runs
\* the first poll cycle up to its first await.
StartWorker ==
    /\ loop.pc = "init"
    /\ IF isRunning
       THEN /\ loop' = [loop EXCEPT !.pc = "exited"]
            /\ UNCHANGED isRunning
       ELSE /\ isRunning' = TRUE
            /\ loop' = PollBegin(loop)
    /\ UNCHANGED <<activeJobs, jobStatus, tasks>>
    /\ UNCHANGED <<importVars, createVars, faults, laterVars>>

\* stopWorker, called by the SIGTERM and SIGINT handlers.
StopWorker ==
    /\ isRunning
    /\ isRunning' = FALSE
    /\ UNCHANGED <<activeJobs, loop, jobStatus, tasks>>
    /\ UNCHANGED <<importVars, createVars, faults, laterVars>>

\* while (isRunning): the condition the loop reads before each poll cycle.
WhileCondition_Always(running) == TRUE

WhileCondition(running) == running

\* The sleep ends: the while condition is read and, if set, the next poll
\* cycle runs up to its first await.
WorkerLoop_Wake ==
    /\ loop.pc = "sleep"
    /\ loop' = IF WhileCondition(isRunning) THEN PollBegin(loop)
               ELSE [loop EXCEPT !.pc = "exited"]
    /\ UNCHANGED <<isRunning, activeJobs, jobStatus, tasks>>
    /\ UNCHANGED <<importVars, createVars, faults, laterVars>>

\* The import query answers; the export query is sent with the capacity left
\* and the active set of this moment as its notIn list.
Poll_ImportsFound ==
    /\ loop.pc = "queryImports"
    /\ loop' = [loop EXCEPT !.pc = "queryExports",
                            !.pendingImports =
                                FindPending("import", loop.notIn, loop.availableSlots),
                            !.notIn = activeJobs]
    /\ UNCHANGED <<isRunning, activeJobs, jobStatus, tasks>>
    /\ UNCHANGED <<importVars, createVars, faults, laterVars>>

\* A findMany of the poll throws: the try/catch of the loop logs it and the
\* loop sleeps.
Poll_QueryFails ==
    /\ loop.pc \in {"queryImports", "queryExports"}
    /\ loop' = [loop EXCEPT !.pc = "sleep", !.pendingImports = <<>>, !.notIn = {}]
    /\ UNCHANGED <<isRunning, activeJobs, jobStatus, tasks>>
    /\ UNCHANGED <<importVars, createVars, faults, laterVars>>

\* activeJobs.add(jobId) of process*JobAsync: the set holds bare numbers.
Claim(active, ids) == active \cup ids

\* The export query answers; every job found is dispatched: its id joins the
\* active set and its task starts (up to its first store call).
Poll_Dispatch ==
    /\ loop.pc = "queryExports"
    /\ LET pendingExports ==
               FindPending("export", loop.notIn,
                           loop.availableSlots - Len(loop.pendingImports))
           found == {<<"import", id>> : id \in Range(loop.pendingImports)}
                    \cup {<<"export", id>> : id \in Range(pendingExports)}
       IN /\ activeJobs' = Claim(activeJobs, {IdOf(j) : j \in found})
          /\ tasks' = [j \in Jobs |-> IF j \in found
                                      THEN [tasks[j] EXCEPT !.starting = @ + 1]
                                      ELSE tasks[j]]
    /\ loop' = [loop EXCEPT !.pc = "sleep", !.pendingImports = <<>>, !.notIn = {}]
    /\ UNCHANGED <<isRunning, jobStatus>>
    /\ UNCHANGED <<importVars, createVars, faults, laterVars>>

\* updateJobStatus(jobId, 'processing') of a dispatched task is applied.
Task_Begin(j) ==
    /\ tasks[j].starting > 0
    /\ tasks' = [tasks EXCEPT ![j].starting = @ - 1, ![j].processing = @ + 1]
    /\ jobStatus' = [jobStatus EXCEPT ![j] = "processing"]
    /\ UNCHANGED <<isRunning, activeJobs, loop>>
    /\ UNCHANGED <<importVars, createVars, faults, laterVars>>

\* The .finally handler of process*JobAsync: activeJobs.delete(jobId), whatever
\* the outcome ok of the task.
Release_OnSuccessOnly(active, id, ok) == IF ok THEN active \ {id} ELSE active

Release(active, id, ok) == active \ {id}

\* That first store call throws (before the try block of process*Job): the
\* task rejects and the row stays pending.
Task_StartFails(j) ==
    /\ tasks[j].starting > 0
    /\ CanFail
    /\ faults' = faults + 1
    /\ tasks' = [tasks EXCEPT ![j].starting = @ - 1]
    /\ activeJobs' = Release(activeJobs, IdOf(j), FALSE)
    /\ UNCHANGED <<isRunning, loop, jobStatus>>
    /\ UNCHANGED <<importVars, createVars, laterVars>>

\* The pipeline of a task ends: the row is marked completed, or failed by the
\* catch block, the task settles and its handlers run.  Rejections draw on the
\* same budget as the store failures.
Task_Settle(j) ==
    /\ tasks[j].processing > 0
    /\ \E ok \in BOOLEAN :
          /\ ok \/ CanFail
          /\ faults' = IF ok THEN faults ELSE faults + 1
          /\ jobStatus' = [jobStatus EXCEPT ![j] = IF ok THEN "completed" ELSE "failed"]
          /\ activeJobs' = Release(activeJobs, IdOf(j), ok)
    /\ tasks' = [tasks EXCEPT ![j].processing = @ - 1]
    /\ UNCHANGED <<isRunning, loop>>
    /\ UNCHANGED <<importVars, createVars, laterVars>>

NextWorker ==
    \/ StartWorker
    \/ StopWorker
    \/ WorkerLoop_Wake
    \/ Poll_ImportsFound
    \/ Poll_QueryFails
    \/ Poll_Dispatch
    \/ \E j \in Jobs : Task_Begin(j)
    \/ \E j \in Jobs : Task_StartFails(j)
    \/ \E j \in Jobs : Task_Settle(j)

\* The pipeline variables at rest.
IdleImportVars ==
    /\ importJob = <<>>
    /\ importErrors = <<>>
    /\ upsertLog = <<>>
    /\ countUpdates = <<>>
    /\ task = <<>>
    /\ env = <<>>

InitWorker ==
    InitWorkerVars /\ IdleImportVars /\ IdleCreateVars /\ IdleLaterVars /\ faults = 0

SpecWorker == InitWorker /\ [][NextWorker]_vars

\* The worker over a store that answers every call: the queries of the poll
\* and the first update of a task do not throw (a job may still fail).
NextWorkerLive ==
    \/ StartWorker
    \/ StopWorker
    \/ WorkerLoop_Wake
    \/ Poll_ImportsFound
    \/ Poll_Dispatch
    \/ \E j \in Jobs : Task_Begin(j)
    \/ \E j \in Jobs : Task_Settle(j)

\* Under the scheduling of the runtime the sleep timer fires, an awaited
\* store call answers, and a task that can take its next step takes it.
SpecWorkerLive ==
    /\ InitWorker /\ [][NextWorkerLive]_vars
    /\ WF_vars(StartWorker)
    /\ WF_vars(WorkerLoop_Wake)
    /\ WF_vars(Poll_ImportsFound)
    /\ WF_vars(Poll_Dispatch)
    /\ \A j \in Jobs : WF_vars(Task_Begin(j)) /\ WF_vars(Task_Settle(j))

\* Jobs dispatched by the worker whose tasks have not settled.
InFlight == {j \in Jobs : InFlightOf(j) > 0}

RECURSIVE SumInFlight(_)
SumInFlight(js) ==
    IF js = {} THEN 0
    ELSE LET j == CHOOSE x \in js : TRUE IN InFlightOf(j) + SumInFlight(js \ {j})

\* C1: the number of dispatched jobs, import and export together, whose tasks
\* have not settled is at most MAX_CONCURRENT_JOBS at every moment.
C1_ConcurrencyCap == SumInFlight(Jobs) <= MAX_CONCURRENT_JOBS

\* C9: a settled task, resolved or rejected, leaves no entry in the active
\* set, so every id in the set is that of a task still in flight, and the poll
\* loop leaves its cycle only when the run flag is cleared.
C9_SettledJobsReleaseTheirSlot ==
    /\ \A id \in activeJobs : \E j \in InFlight : IdOf(j) = id
    /\ loop.pc = "exited" => ~isRunning

\* C9 witness: a job has failed and settled, its id is out of the active set,
\* and a job dispatched with the worker at capacity is in flight.
C9_Witness ==
    \E j \in Jobs :
       /\ jobStatus[j] = "failed"
       /\ InFlightOf(j) = 0
       /\ IdOf(j) \notin activeJobs
       /\ \E k \in InFlight : IdOf(k) \in activeJobs /\ jobStatus[k] = "processing"
       /\ isRunning

\* ------------------------------------------------------------ job creation
\* A job table is the sequence of the idempotency keys of its rows; the row at
\* position i has id i (autoincrement).
IdempotencyKeys == 1..NKeys

Resources == {"users", "bogus"}

\* prisma.<table>.findUnique({where: {idempotencyKey}}): the id of the row, 0
\* (null) when there is none.
FindUnique(rows, idempotencyKey) ==
    IF \E i \in 1..Len(rows) : rows[i] = idempotencyKey
    THEN CHOOSE i \in 1..Len(rows) : rows[i] = idempotencyKey
    ELSE 0

\* The unique index on idempotencyKey: an insert of a key the table holds is
\* rejected.
UniqueIndexAllows(rows, idempotencyKey) ==
    \A i \in 1..Len(rows) : rows[i] # idempotencyKey

\* if (existingJob): the request answers with the row found.
ReturnsExisting_Never(existingJob) == FALSE

ReturnsExisting(existingJob) == existingJob # 0

NewRequest(type, idempotencyKey) ==
    [ type |-> type, idempotencyKey |-> idempotencyKey, pc |-> "findUnique",
      existingJob |-> 0, created |-> FALSE, result |-> 0, raised |-> "none" ]

\* The step of a creation request after its lookup has answered: return the
\* existing id, or insert a row and return its id; the insert throws when the
\* unique index rejects it.
AfterLookup(req, rows) ==
    IF ReturnsExisting(req.existingJob)
    THEN [req EXCEPT !.pc = "returned", !.result = req.existingJob]
    ELSE IF UniqueIndexAllows(rows, req.idempotencyKey)
         THEN [req EXCEPT !.pc = "returned", !.created = TRUE,
                          !.result = Len(rows) + 1]
         ELSE [req EXCEPT !.pc = "thrown", !.raised = "unique constraint"]

RowsAfter(req, rows) ==
    IF ~ReturnsExisting(req.existingJob) /\ UniqueIndexAllows(rows, req.idempotencyKey)
    THEN Append(rows, req.idempotencyKey)
    ELSE rows

\* createImportJob up to its first await: the resource check, then the lookup
\* is sent.
CreateImportJob_Call ==
    /\ Len(requests) < NRequests
    /\ \E resource \in Resources, k \in IdempotencyKeys :
          requests' = Append(requests,
              IF resource = "users"
              THEN NewRequest("import", k)
              ELSE [NewRequest("import", k) EXCEPT
                       !.pc = "thrown", !.raised = "Invalid resource type"])
    /\ UNCHANGED <<importJobRows, exportJobRows>>
    /\ UNCHANGED <<importVars, workerVars, faults, laterVars>>

\* createExportJob up to its first await.
CreateExportJob_Call ==
    /\ Len(requests) < NRequests
    /\ \E k \in IdempotencyKeys :
          requests' = Append(requests, NewRequest("export", k))
    /\ UNCHANGED <<importJobRows, exportJobRows>>
    /\ UNCHANGED <<importVars, workerVars, faults, laterVars>>

\* prisma.importJob.findUnique answers.
CreateImportJob_FindUnique(r) ==
    /\ requests[r].type = "import"
    /\ requests[r].pc = "findUnique"
    /\ requests' = [requests EXCEPT
           ![r].pc = "found",
           ![r].existingJob = FindUnique(importJobRows, requests[r].idempotencyKey)]
    /\ UNCHANGED <<importJobRows, exportJobRows>>
    /\ UNCHANGED <<importVars, workerVars, faults, laterVars>>

\* prisma.exportJob.findUnique answers.
CreateExportJob_FindUnique(r) ==
    /\ requests[r].type = "export"
    /\ requests[r].pc = "findUnique"
    /\ requests' = [requests EXCEPT
           ![r].pc = "found",
           ![r].existingJob = FindUnique(exportJobRows, requests[r].idempotencyKey)]
    /\ UNCHANGED <<importJobRows, exportJobRows>>
    /\ UNCHANGED <<importVars, workerVars, faults, laterVars>>

\* The rest of createImportJob: the existing id, or prisma.importJob.create.
CreateImportJob_Return(r) ==
    /\ requests[r].type = "import"
    /\ requests[r].pc = "found"
    /\ requests' = [requests EXCEPT ![r] = AfterLookup(requests[r], importJobRows)]
    /\ importJobRows' = RowsAfter(requests[r], importJobRows)
    /\ UNCHANGED exportJobRows
    /\ UNCHANGED <<importVars, workerVars, faults, laterVars>>

\* The rest of createExportJob.
CreateExportJob_Return(r) ==
    /\ requests[r].type = "export"
    /\ requests[r].pc = "found"
    /\ requests' = [requests EXCEPT ![r] = AfterLookup(requests[r], exportJobRows)]
    /\ exportJobRows' = RowsAfter(requests[r], exportJobRows)
    /\ UNCHANGED importJobRows
    /\ UNCHANGED <<importVars, workerVars, faults, laterVars>>

NextCreate ==
    \/ CreateImportJob_Call
    \/ CreateExportJob_Call
    \/ \E r \in 1..Len(requests) : CreateImportJob_FindUnique(r)
    \/ \E r \in 1..Len(requests) : CreateExportJob_FindUnique(r)
    \/ \E r \in 1..Len(requests) : CreateImportJob_Return(r)
    \/ \E r \in 1..Len(requests) : CreateExportJob_Return(r)

\* No request has arrived and both tables are empty.
InitCreate ==
    IdleCreateVars /\ IdleImportVars /\ IdleWorkerVars /\ IdleLaterVars /\ faults = 0

SpecCreate == InitCreate /\ [][NextCreate]_vars

RowsOf(type) == IF type = "import" THEN importJobRows ELSE exportJobRows

\* C6: a creation request whose lookup found a row with its idempotency key
\* returns the id of that row and inserts nothing, a returned id is always that
\* of the row holding the request's key, and no table holds two rows with the
\* same idempotency key.
C6_IdempotentCreation ==
    /\ \A r \in 1..Len(requests) :
          LET req == requests[r]
          IN /\ req.existingJob # 0 =>
                   /\ req.pc \in {"found", "returned"}
                   /\ ~req.created
                   /\ req.pc = "returned" => req.result = req.existingJob
             /\ req.pc = "returned" =>
                   /\ req.result \in 1..Len(RowsOf(req.type))
                   /\ RowsOf(req.type)[req.result] = req.idempotencyKey
    /\ \A type \in {"import", "export"} :
          \A i, j \in 1..Len(RowsOf(type)) :
             RowsOf(type)[i] = RowsOf(type)[j] => i = j

\* C6 witness: a request created a row and a later request of the same type
\* with the same key returned that row's id without creating one, while the
\* other table holds a row too.
C6_Witness ==
    \E type \in {"import", "export"} :
       /\ importJobRows # <<>> /\ exportJobRows # <<>>
       /\ \E r1, r2 \in 1..Len(requests) :
             /\ r1 < r2
             /\ requests[r1].type = type /\ requests[r2].type = type
             /\ requests[r1].idempotencyKey = requests[r2].idempotencyKey
             /\ requests[r1].pc = "returned" /\ requests[r1].created
             /\ requests[r2].pc = "returned" /\ ~requests[r2].created
             /\ requests[r2].result = requests[r1].result

\* ------------------------------------------------------------ properties
\* The source as read so far: its data records are the entries that are
\* neither blank lines nor the CSV header.
IsData(kind) == kind \notin {"blank", "header"}

DataPositions == {p \in 1..Len(env.source) : IsData(env.source[p])}

\* The 0-based position of the data record at source position p.
DataIndex(p) == Cardinality({q \in DataPositions : q < p})

NumRecords == Cardinality(DataPositions)

NumInvalid == Cardinality({p \in DataPositions :
                              env.source[p] \in {"malformed", "invalid"}})

ValidPositions == {p \in DataPositions : env.source[p] = "valid"}

\* The rank of a valid record among the valid records: in a run without
\* failed store calls the k-th upsert is that of the k-th valid record.
ValidRank(p) == Cardinality({q \in ValidPositions : q <= p})

UpsertedOk == {upsertLog[j].recordIndex : j \in {x \in 1..Len(upsertLog) : upsertLog[x].ok}}

UpsertFailed == {upsertLog[j].recordIndex : j \in {x \in 1..Len(upsertLog) : ~upsertLog[x].ok}}

ErrorIndexes == {importErrors[j].recordIndex : j \in 1..Len(importErrors)}

Terminal == {"completed", "failed"}

\* C2: the stored status of a job only moves pending -> processing ->
\* completed | failed: nothing returns it to pending, and a completed or failed
\* status never changes again, whatever the store calls of the pipeline do.
C2_StatusNeverRegresses ==
    [][ /\ (importJob.status \in Terminal => importJob'.status = importJob.status)
        /\ (importJob.status # "pending" => importJob'.status # "pending") ]_vars

\* C3: a record that fails to parse, fails validation or fails its upsert does
\* not stop the import: when no source error and no failure of a job-row or
\* ImportError store call occurs, the whole source is read, every valid record
\* is handed to the upsert once, in source order, and the job ends completed.
C3_RecordFailuresDoNotStopImport ==
    (task.pc = "done" /\ faults = 0 /\ env.sourceError = "none")
        => /\ importJob.status = "completed"
           /\ task.outcome = "resolved"
           /\ Len(env.source) = env.fileLines
           /\ Len(upsertLog) = Cardinality(ValidPositions)
           /\ \A a, b \in 1..Len(upsertLog) :
                 a < b => upsertLog[a].recordIndex < upsertLog[b].recordIndex

\* C3 witness: a completed import in which a record failed validation or
\* parsing, another failed its upsert, and a later record was persisted.
C3_Witness ==
    /\ task.pc = "done" /\ faults = 0 /\ importJob.status = "completed"
    /\ \E p \in DataPositions, q \in ValidPositions :
          /\ p < q
          /\ env.source[p] \in {"malformed", "invalid"}
          /\ upsertLog[ValidRank(q)].ok
    /\ \E a, b \in 1..Len(upsertLog) : a < b /\ ~upsertLog[a].ok /\ upsertLog[b].ok

\* C4: with no store-level failure, a completed import of N data records of
\* which E are structurally invalid has totalRecords = N,
\* successCount + errorCount = N and errorCount = E.
C4_CompletedCounts ==
    (importJob.status = "completed" /\ faults = 0 /\ UpsertFailed = {})
        => /\ importJob.totalRecords = NumRecords
           /\ importJob.successCount + importJob.errorCount = NumRecords
           /\ importJob.errorCount = NumInvalid

\* C5: whenever the stored status is completed or failed, the stored
\* successCount + errorCount equals the stored totalRecords.
C5_TerminalCountsAddUp ==
    importJob.status \in Terminal
        => importJob.successCount + importJob.errorCount = importJob.totalRecords

\* C7: when an import job completes, its ImportError rows are one per failed
\* record: as many as errorCount, no recordIndex twice, and none for a record
\* that was upserted successfully.
C7_OneErrorRowPerFailedRecord ==
    importJob.status = "completed"
        => /\ Len(importErrors) = importJob.errorCount
           /\ \A a, b \in 1..Len(importErrors) :
                 importErrors[a].recordIndex = importErrors[b].recordIndex => a = b
           /\ ErrorIndexes \cap UpsertedOk = {}

\* The recordIndex the pipeline gave the data record at source position p (the
\* CSV header line takes index 0).
AssignedIndex(p) == DataIndex(p) + (IF task.format = "csv" THEN 1 ELSE 0)

\* C12: when an import completes, a record that failed validation was never
\* handed to an upsert, has exactly one ImportError, of type VALIDATION_ERROR
\* and with its recordIndex; the VALIDATION_ERROR rows are one per such record;
\* and, no store call having failed, errorCount counts it once: errorCount is
\* the number of records that failed to parse or validate plus the number of
\* failed upserts.
C12_InvalidRecordsAreRecordedOnce ==
    LET InvalidPositions == {p \in DataPositions : env.source[p] = "invalid"}
        ValidationErrors == {j \in 1..Len(importErrors) :
                                importErrors[j].errorType = "VALIDATION_ERROR"}
    IN
    importJob.status = "completed"
        => /\ \A p \in InvalidPositions :
                 /\ \A u \in 1..Len(upsertLog) :
                       upsertLog[u].recordIndex # AssignedIndex(p)
                 /\ Cardinality({j \in 1..Len(importErrors) :
                        importErrors[j].recordIndex = AssignedIndex(p)}) = 1
                 /\ \E j \in ValidationErrors :
                       importErrors[j].recordIndex = AssignedIndex(p)
           /\ Cardinality(ValidationErrors) = Cardinality(InvalidPositions)
           /\ faults = 0 =>
                 importJob.errorCount = NumInvalid + Cardinality(UpsertFailed)

\* C12 witness: a completed import with an invalid record, an upsert that
\* failed and one that succeeded.
C12_Witness ==
    /\ importJob.status = "completed"
    /\ faults = 0
    /\ \E p \in DataPositions : env.source[p] = "invalid"
    /\ UpsertFailed # {} /\ UpsertedOk # {}

\* C8: a source-level error (no file path, missing file, failed download,
\* unparsable or non-array JSON) leaves no record upserted and no ImportError,
\* and, the status updates succeeding, ends the job failed with completedAt set
\* and the source error re-raised to the caller.
C8_SourceErrorFailsJob ==
    env.sourceError # "none"
        => /\ upsertLog = <<>>
           /\ importErrors = <<>>
           /\ (task.pc = "done" /\ faults = 0)
                 => /\ importJob.status = "failed"
                    /\ importJob.completedAt
                    /\ task.outcome = "rejected"
                    /\ task.raised = "source"

\* C8 witness: a job settled after a non-array JSON document.
C8_Witness ==
    /\ task.pc = "done" /\ faults = 0
    /\ env.sourceError = "nonarray"
    /\ importJob.status = "failed"

\* What processBatch did since it was entered.
BatchUpserts == SubSeq(upsertLog, task.snap.upserts + 1, Len(upsertLog))

BatchErrors == SubSeq(importErrors, task.snap.errors + 1, Len(importErrors))

BatchFailedItems == SelectSeq(BatchUpserts, LAMBDA u : ~u.ok)

\* C10: when processBatch returns from a batch of n items of which k upserts
\* failed, it has attempted every item once in batch order, returns
\* {success: n-k, error: k}, has created k ImportErrors carrying the failed
\* items' recordIndex, and has applied one counter update incrementing
\* successCount by n-k and errorCount by k.
C10_ProcessBatchResult ==
    task.pc = "batchRet"
        => LET n == Len(task.batch)
               k == Len(BatchFailedItems) IN
           /\ Len(BatchUpserts) = n
           /\ \A j \in 1..n : BatchUpserts[j].recordIndex = task.batch[j]
           /\ task.success = n - k /\ task.error = k
           /\ Len(BatchErrors) = k
           /\ \A j \in 1..k :
                 BatchErrors[j].recordIndex = BatchFailedItems[j].recordIndex
           /\ Len(countUpdates) = task.snap.updates + 1
           /\ countUpdates[Len(countUpdates)] = [success |-> n - k, error |-> k]
           /\ importJob.successCount = task.snap.successCount + (n - k)
           /\ importJob.errorCount = task.snap.errorCount + k

\* C10 witness: processBatch returns from a second batch, after a batch that
\* persisted records, with one failed upsert.
C10_Witness ==
    /\ task.pc = "batchRet"
    /\ task.snap.successCount > 0
    /\ task.error = 1
    /\ faults = 0


\* ----------------------------------------------------------------- export
\* A chunk written to the output: '[\n', ',\n', '\n]', JSON.stringify(record)
\* or JSON.stringify(record) + '\n'.
Chunk(kind, id) == [kind |-> kind, id |-> id]

InitRun ==
    [ pc |-> "idle", direct |-> FALSE, skip |-> 0, page |-> <<>>,
      hasMore |-> TRUE, recordCount |-> 0, first |-> TRUE, out |-> <<>> ]

\* where.active of getUserCursor: absent, true or false.
Matches(filters, row) == filters = "none" \/ row.active = (filters = "true")

FindMany_Unfiltered(filters, take, skip) ==
    SubSeq(storeRows, skip + 1, IF skip + take < Len(storeRows)
                                THEN skip + take ELSE Len(storeRows))

\* prisma.<table>.findMany({where, orderBy: {id: 'asc'}, take, skip}).
FindMany(filters, take, skip) ==
    LET matching == SelectSeq(storeRows, LAMBDA row : Matches(filters, row))
    IN SubSeq(matching, skip + 1, IF skip + take < Len(matching)
                                  THEN skip + take ELSE Len(matching))

\* The cursor after the records of a page were yielded: another query while
\* the last page was full, else the end of the stream (closing bracket, end()).
AfterPage(run) ==
    IF run.page # <<>> THEN run
    ELSE IF run.hasMore THEN [run EXCEPT !.pc = "query"]
    ELSE [run EXCEPT !.pc = IF run.direct THEN "done" ELSE "complete",
                     !.out = IF exportJob.format = "json"
                             THEN Append(@, Chunk("]", 0)) ELSE @]

\* The synchronous start of the output: the opening bracket of a JSON array.
Opened(run) ==
    [run EXCEPT !.pc = "query",
                !.out = IF exportJob.format = "json" THEN <<Chunk("[", 0)>> ELSE <<>>]

\* GET /v1/exports: streamExport, no job row and no filters.
StreamExport_Begin ==
    /\ exportJob.request = "GET"
    /\ runs[1].pc = "idle"
    /\ runs' = [runs EXCEPT ![1] = Opened([@ EXCEPT !.direct = TRUE])]
    /\ UNCHANGED <<exportJob, storeRows, dispatch, faults>>
    /\ UNCHANGED <<importVars, workerVars, createVars, recordVars, counterVars, statusVars, validated, loops>>

\* pollAndProcessJobs: the pending jobs whose id is not in activeJobs are
\* dispatched, an import job and the export job of the same numeric id alike.
Poll_DispatchExport ==
    /\ exportJob.request = "POST"
    /\ ~dispatch.active
    /\ \E importFound \in {b \in BOOLEAN : b => dispatch.import = "pending"},
          r \in 1..NRuns :
          LET exportFound == exportJob.status = "pending" IN
          /\ importFound \/ exportFound
          /\ runs[r].pc = "idle" /\ \A q \in 1..(r - 1) : runs[q].pc # "idle"
          /\ runs' = IF exportFound THEN [runs EXCEPT ![r].pc = "start"] ELSE runs
          /\ dispatch' = [active |-> TRUE,
                          import |-> IF importFound THEN "inflight" ELSE dispatch.import]
    /\ UNCHANGED <<exportJob, storeRows, faults>>
    /\ UNCHANGED <<importVars, workerVars, createVars, recordVars, counterVars, statusVars, validated, loops>>

\* The import task of the same id settles: activeJobs.delete(jobId).
ImportTask_Finally ==
    /\ dispatch.import = "inflight"
    /\ dispatch' = [active |-> FALSE, import |-> "settled"]
    /\ UNCHANGED <<exportJob, storeRows, runs, faults>>
    /\ UNCHANGED <<importVars, workerVars, createVars, recordVars, counterVars, statusVars, validated, loops>>

\* processExportJob: updateJobStatus(jobId, 'processing'), before the try.
ProcessExportJob_Start(r) ==
    /\ runs[r].pc = "start"
    /\ \/ /\ exportJob' = [exportJob EXCEPT !.status = "processing", !.startedAt = TRUE]
          /\ runs' = [runs EXCEPT ![r] = Opened(@)]
          /\ UNCHANGED faults
       \/ /\ CanFail
          /\ faults' = faults + 1
          /\ runs' = [runs EXCEPT ![r].pc = "rejected"]
          /\ UNCHANGED exportJob
    /\ UNCHANGED <<storeRows, dispatch>>
    /\ UNCHANGED <<importVars, workerVars, createVars, recordVars, counterVars, statusVars, validated, loops>>

\* One findMany of the cursor.
Cursor_Query(r) ==
    /\ runs[r].pc = "query"
    /\ \/ /\ LET run == runs[r]
                 filters == IF run.direct THEN "none" ELSE exportJob.filters
                 found == FindMany(filters, BATCH_SIZE, run.skip)
             IN runs' = [runs EXCEPT ![r] =
                           AfterPage([run EXCEPT !.pc = "yield",
                                                 !.page = found,
                                                 !.hasMore = Len(found) = BATCH_SIZE,
                                                 !.skip = @ + BATCH_SIZE])]
          /\ UNCHANGED faults
       \/ /\ CanFail
          /\ faults' = faults + 1
          /\ runs' = [runs EXCEPT ![r].pc = IF runs[r].direct THEN "rejected" ELSE "catch"]
    /\ UNCHANGED <<exportJob, storeRows, dispatch>>
    /\ UNCHANGED <<importVars, workerVars, createVars, recordVars, counterVars, statusVars, validated, loops>>

WriteRecord_TrailingComma(run) ==
    LET id == Head(run.page).id
    IN [run EXCEPT !.out = @ \o <<Chunk("object", id), Chunk(",", 0)>>,
                   !.first = FALSE, !.recordCount = @ + 1, !.page = Tail(@)]

\* One record yielded by the cursor and written.
WriteRecord(run) ==
    LET id == Head(run.page).id
        written == IF exportJob.format = "ndjson"
                   THEN <<Chunk("line", id)>>
                   ELSE IF run.first THEN <<Chunk("object", id)>>
                        ELSE <<Chunk(",", 0), Chunk("object", id)>>
    IN [run EXCEPT !.out = @ \o written, !.first = FALSE,
                   !.recordCount = @ + 1, !.page = Tail(@)]

Cursor_Yield(r) ==
    /\ runs[r].pc = "yield"
    /\ runs' = [runs EXCEPT ![r] = AfterPage(WriteRecord(@))]
    /\ UNCHANGED <<exportJob, storeRows, dispatch, faults>>
    /\ UNCHANGED <<importVars, workerVars, createVars, recordVars, counterVars, statusVars, validated, loops>>

\* updateJobStatus(jobId, 'completed', {completedAt, filePath, downloadUrl,
\* totalRecords}).
ProcessExportJob_Complete(r) ==
    /\ runs[r].pc = "complete"
    /\ \/ /\ exportJob' = [exportJob EXCEPT !.status = "completed",
                                            !.completedAt = TRUE,
                                            !.filePath = TRUE,
                                            !.downloadUrl = TRUE,
                                            !.totalRecords = runs[r].recordCount]
          /\ runs' = [runs EXCEPT ![r].pc = "resolved"]
          /\ UNCHANGED faults
       \/ /\ CanFail
          /\ faults' = faults + 1
          /\ runs' = [runs EXCEPT ![r].pc = "catch"]
          /\ UNCHANGED exportJob
    /\ UNCHANGED <<storeRows, dispatch>>
    /\ UNCHANGED <<importVars, workerVars, createVars, recordVars, counterVars, statusVars, validated, loops>>

\* The catch: updateJobStatus(jobId, 'failed', {completedAt}), then rethrow.
ProcessExportJob_Catch(r) ==
    /\ runs[r].pc = "catch"
    /\ runs' = [runs EXCEPT ![r].pc = "rejected"]
    /\ \/ /\ exportJob' = [exportJob EXCEPT !.status = "failed", !.completedAt = TRUE]
          /\ UNCHANGED faults
       \/ /\ CanFail
          /\ faults' = faults + 1
          /\ UNCHANGED exportJob
    /\ UNCHANGED <<storeRows, dispatch>>
    /\ UNCHANGED <<importVars, workerVars, createVars, recordVars, counterVars, statusVars, validated, loops>>

\* processExportJobAsync .finally: activeJobs.delete(jobId).
ExportTask_Finally(r) ==
    /\ runs[r].pc \in {"resolved", "rejected"}
    /\ ~runs[r].direct
    /\ runs' = [runs EXCEPT ![r].pc = "settled"]
    /\ dispatch' = [dispatch EXCEPT !.active = FALSE]
    /\ UNCHANGED <<exportJob, storeRows, faults>>
    /\ UNCHANGED <<importVars, workerVars, createVars, recordVars, counterVars, statusVars, validated, loops>>

NextExport ==
    \/ StreamExport_Begin
    \/ Poll_DispatchExport
    \/ ImportTask_Finally
    \/ \E r \in 1..NRuns :
          \/ ProcessExportJob_Start(r)
          \/ Cursor_Query(r)
          \/ Cursor_Yield(r)
          \/ ProcessExportJob_Complete(r)
          \/ ProcessExportJob_Catch(r)
          \/ ExportTask_Finally(r)

InitExport ==
    /\ exportJob \in [ request : {"GET", "POST"}, status : {"pending"},
                       format : {"json", "ndjson"},
                       filters : {"none", "true", "false"},
                       startedAt : {FALSE}, completedAt : {FALSE},
                       filePath : {FALSE}, downloadUrl : {FALSE},
                       totalRecords : {0} ]
    /\ \E n \in 0..MaxRows :
          storeRows \in {[i \in 1..n |-> [id |-> i, active |-> a[i], updatedAt |-> 0]] :
                           a \in [1..n -> BOOLEAN]}
    /\ runs = [r \in 1..NRuns |-> InitRun]
    /\ dispatch \in [active : {FALSE}, import : {"none", "pending"}]
    /\ faults = 0
    /\ IdleImportVars /\ IdleWorkerVars /\ IdleCreateVars /\ IdleRecordVars
    /\ counterRows = <<>> /\ counterTasks = <<>>
    /\ errorRows = <<>> /\ response = <<>>
    /\ validated = <<>>
    /\ loops = <<>>

SpecExport == InitExport /\ [][NextExport]_vars

\* The cursor of a run has returned: its last page was short and was yielded.
CursorDone(run) == run.pc # "idle" /\ ~run.hasMore /\ run.page = <<>>

\* The ids of the rows the run's cursor had to emit, in id order.
MatchingIds(run) ==
    LET matching == SelectSeq(storeRows, LAMBDA row :
                       Matches(IF run.direct THEN "none" ELSE exportJob.filters, row))
    IN [k \in 1..Len(matching) |-> matching[k].id]

\* The ids of the records written, in output order.
Emitted(run) ==
    LET records == SelectSeq(run.out, LAMBDA c : c.kind \in {"object", "line"})
    IN [k \in 1..Len(records) |-> records[k].id]

ExpectedOutput(format, ids) ==
    IF format = "ndjson"
    THEN [k \in 1..Len(ids) |-> Chunk("line", ids[k])]
    ELSE <<Chunk("[", 0)>>
         \o [k \in 1..(IF Len(ids) = 0 THEN 0 ELSE 2 * Len(ids) - 1) |->
                IF k % 2 = 1 THEN Chunk("object", ids[(k + 1) \div 2]) ELSE Chunk(",", 0)]
         \o <<Chunk("]", 0)>>

\* C17: the finished output of n records is, as a JSON array, '[' then the n
\* objects with one comma between neighbours (n - 1 commas, none leading or
\* trailing) then ']', and as NDJSON n lines of one object each; the objects
\* are in cursor order, in the direct stream and in the job-backed export.
C17_OutputFraming ==
    \A r \in 1..NRuns :
       CursorDone(runs[r]) =>
          runs[r].out = ExpectedOutput(exportJob.format, MatchingIds(runs[r]))

\* C17 witness: a finished JSON array of at least two objects.
C17_Witness ==
    \E r \in 1..NRuns :
       /\ CursorDone(runs[r])
       /\ exportJob.format = "json"
       /\ Len(MatchingIds(runs[r])) >= 2
       /\ Len(runs[r].out) = 2 * Len(MatchingIds(runs[r])) + 1

\* C18: the export job row has a downloadUrl or a filePath only while its
\* status is completed; when completed, totalRecords is the number of records
\* a finished run wrote; when failed, completedAt is set and downloadUrl is not.
C18_DownloadUrlOnlyWhenCompleted ==
    /\ (exportJob.downloadUrl \/ exportJob.filePath) => exportJob.status = "completed"
    /\ exportJob.status = "completed" =>
          \E r \in 1..NRuns : /\ CursorDone(runs[r])
                              /\ exportJob.totalRecords = Len(Emitted(runs[r]))
    /\ exportJob.status = "failed" =>
          exportJob.completedAt /\ ~exportJob.downloadUrl

\* ------------------------------------------------------ concurrent imports
Where_FirstRow(jobId) == 1

\* prisma.importJob.update({where: {id: jobId}, ...}): the row updated.
Where(jobId) == jobId

\* The frame of a job between two store calls; ok and failed are history: the
\* job's own records that were upserted and that failed.
InitCounterTask ==
    [ pc |-> "read", recordIndex |-> 0, successCount |-> 0, errorCount |-> 0,
      batch |-> 0, success |-> 0, error |-> 0, ok |-> 0, failed |-> 0 ]

\* One record of job j: it is pushed and, in its flush, upserted; the upsert
\* returns or throws (recordError, error++).  A full batch ends in the
\* counter update of processBatch.
Concurrent_Record(j) ==
    /\ counterTasks[j].pc = "read"
    /\ counterTasks[j].recordIndex < MaxRecords
    /\ \E upserted \in BOOLEAN :
          counterTasks' = [counterTasks EXCEPT ![j] =
             [@ EXCEPT !.recordIndex = @ + 1,
                       !.batch = @ + 1,
                       !.success = IF upserted THEN @ + 1 ELSE @,
                       !.error = IF upserted THEN @ ELSE @ + 1,
                       !.ok = IF upserted THEN @ + 1 ELSE @,
                       !.failed = IF upserted THEN @ ELSE @ + 1,
                       !.pc = IF counterTasks[j].batch + 1 >= BATCH_SIZE
                              THEN "counts" ELSE "read"]]
    /\ UNCHANGED counterRows
    /\ UNCHANGED <<importVars, workerVars, createVars, faults, recordVars, exportVars, statusVars, validated, loops>>

\* End of the source of job j, after its last or last but one record: the
\* remaining batch is flushed.
Concurrent_End(j) ==
    /\ counterTasks[j].pc = "read"
    /\ counterTasks[j].recordIndex >= MaxRecords - 1
    /\ counterTasks' = [counterTasks EXCEPT ![j].pc =
                           IF counterTasks[j].batch > 0 THEN "lastCounts" ELSE "final"]
    /\ UNCHANGED counterRows
    /\ UNCHANGED <<importVars, workerVars, createVars, faults, recordVars, exportVars, statusVars, validated, loops>>

\* processBatch: updateJobCounts(jobId, {increment}), then the caller adds the
\* result to its own counts.
Concurrent_Counts(j) ==
    /\ counterTasks[j].pc \in {"counts", "lastCounts"}
    /\ counterRows' = [counterRows EXCEPT ![Where(j)] =
                          IncrementCounts(@, counterTasks[j].success, counterTasks[j].error)]
    /\ counterTasks' = [counterTasks EXCEPT ![j] =
          [@ EXCEPT !.successCount = @ + counterTasks[j].success,
                    !.errorCount = @ + counterTasks[j].error,
                    !.batch = 0, !.success = 0, !.error = 0,
                    !.pc = IF counterTasks[j].pc = "counts" THEN "read" ELSE "final"]]
    /\ UNCHANGED <<importVars, workerVars, createVars, faults, recordVars, exportVars, statusVars, validated, loops>>

\* The final updateJobCounts(jobId, {totalRecords, successCount, errorCount}).
Concurrent_FinalCounts(j) ==
    /\ counterTasks[j].pc = "final"
    /\ counterRows' = [counterRows EXCEPT ![Where(j)] =
                          [@ EXCEPT !.totalRecords = counterTasks[j].recordIndex,
                                    !.successCount = counterTasks[j].successCount,
                                    !.errorCount = counterTasks[j].errorCount]]
    /\ counterTasks' = [counterTasks EXCEPT ![j].pc = "done"]
    /\ UNCHANGED <<importVars, workerVars, createVars, faults, recordVars, exportVars, statusVars, validated, loops>>

NextConcurrent ==
    \E j \in 1..NJobs :
       \/ Concurrent_Record(j)
       \/ Concurrent_End(j)
       \/ Concurrent_Counts(j)
       \/ Concurrent_FinalCounts(j)

InitConcurrent ==
    /\ counterRows = [j \in 1..NJobs |->
                         [totalRecords |-> 0, successCount |-> 0, errorCount |-> 0]]
    /\ counterTasks = [j \in 1..NJobs |-> InitCounterTask]
    /\ faults = 0
    /\ IdleImportVars /\ IdleWorkerVars /\ IdleCreateVars /\ IdleRecordVars
    /\ exportJob = <<>> /\ storeRows = <<>> /\ runs = <<>> /\ dispatch = <<>>
    /\ errorRows = <<>> /\ response = <<>>
    /\ validated = <<>>
    /\ loops = <<>>

SpecConcurrent == InitConcurrent /\ [][NextConcurrent]_vars

\* C19: with the store calls of the jobs interleaved in any order, no counter
\* update is lost or lands on another job's row: every update leaves the rows
\* of the other jobs as they were, the increments applied to a row add up to
\* the job's own flushed records, and a finished job's successCount and
\* errorCount are the numbers of its own records that succeeded and failed.
C19_CountersPerJob ==
    \A j \in 1..NJobs :
       /\ counterTasks[j].pc \in {"read", "counts", "lastCounts", "final"} =>
             /\ counterRows[j].successCount = counterTasks[j].successCount
             /\ counterRows[j].errorCount = counterTasks[j].errorCount
             /\ counterTasks[j].successCount + counterTasks[j].success = counterTasks[j].ok
             /\ counterTasks[j].errorCount + counterTasks[j].error = counterTasks[j].failed
       /\ counterTasks[j].pc = "done" =>
             /\ counterRows[j].successCount = counterTasks[j].ok
             /\ counterRows[j].errorCount = counterTasks[j].failed
             /\ counterRows[j].totalRecords = counterTasks[j].ok + counterTasks[j].failed

\* C19 witness: all jobs are done, with different counts, and one of them
\* finished while another was between two of its counter updates.
C19_Witness ==
    /\ \A j \in 1..NJobs : counterTasks[j].pc = "done"
    /\ \E j, k \in 1..NJobs :
          /\ counterRows[j].successCount > counterRows[k].successCount
          /\ counterRows[j].errorCount < counterRows[k].errorCount
          /\ counterRows[k].totalRecords >= BATCH_SIZE

\* --------------------------------------------------------------- job status
\* prisma.importError.create: createdAt defaults to the current timestamp, in
\* milliseconds; a row created in the same millisecond as the one before it
\* has the same createdAt.
Status_CreateImportError ==
    /\ Len(errorRows) < MaxErrorRows
    /\ \E elapsed \in {0, 1} :
          errorRows' = Append(errorRows, IF errorRows = <<>> THEN 0
                                         ELSE errorRows[Len(errorRows)] + elapsed)
    /\ UNCHANGED response
    /\ UNCHANGED <<importVars, workerVars, createVars, faults, recordVars, exportVars, counterVars, validated, loops>>

\* getImportJobStatus: errors {orderBy: {createdAt: 'desc'}, take}: any rows,
\* as many as take allows, none older than a row left out; the order among
\* rows of equal createdAt is the store's choice.
GetImportJobStatus ==
    /\ \E returned \in SUBSET (1..Len(errorRows)) :
          /\ Cardinality(returned) = IF Len(errorRows) < ErrorsTake
                                     THEN Len(errorRows) ELSE ErrorsTake
          /\ \A i \in returned, j \in (1..Len(errorRows)) \ returned :
                errorRows[i] >= errorRows[j]
          /\ response' = [owned |-> Len(errorRows), errors |-> returned]
    /\ UNCHANGED errorRows
    /\ UNCHANGED <<importVars, workerVars, createVars, faults, recordVars, exportVars, counterVars, validated, loops>>

NextStatus ==
    \/ Status_CreateImportError
    \/ GetImportJobStatus

InitStatus ==
    /\ errorRows = <<>>
    /\ response = [owned |-> 0, errors |-> {}]
    /\ faults = 0
    /\ IdleImportVars /\ IdleWorkerVars /\ IdleCreateVars /\ IdleRecordVars
    /\ exportJob = <<>> /\ storeRows = <<>> /\ runs = <<>> /\ dispatch = <<>>
    /\ counterRows = <<>> /\ counterTasks = <<>>
    /\ validated = <<>>
    /\ loops = <<>>

SpecStatus == InitStatus /\ [][NextStatus]_vars

\* C20: the status response holds at most ErrorsTake errors, and when the job
\* owns more rows than that, they are the ErrorsTake most recently created.
C20_MostRecentErrors ==
    /\ Cardinality(response.errors) <= ErrorsTake
    /\ response.owned > ErrorsTake =>
          response.errors = (response.owned - ErrorsTake + 1)..response.owned

\* -------------------------------------------------------- domain records
\* A scalar of a source record or of an exported one.  An identifier is an
\* integer ("int"), a string of digits ("numstr"), a string holding a '-' (a
\* UUID), or another non-numeric string.
Val(kind, n, s) == [kind |-> kind, n |-> n, s |-> s]

NoId == Val("none", 0, "")

Uuids == {"u-1", "u-2"}

Emails == {"a@x.io", "b@x.io"}

Slugs == {"first-post"}

Names == {"Al Bo", "albo"}

\* The identifiers a source record may carry as the id of a row of `table` or
\* as a reference to one: the ids of its rows and the next one, the string
\* "1", the UUIDs, and a string that is neither a number nor a UUID.
RefIds(table) ==
    {Val("int", n, "") : n \in 1..(Len(table) + 1)} \cup {Val("numstr", 1, "")}
       \cup {Val("uuid", 0, u) : u \in Uuids} \cup {Val("str", 0, "abc")}

UserRecords ==
    [id : {id \in RefIds(users) : id.kind \in {"int", "uuid"}},
     email : Emails, name : Names]

ArticleRecords ==
    [id : {NoId} \cup {Val("uuid", 0, u) : u \in Uuids}, slug : Slugs, author_id : RefIds(users)]

CommentRecords ==
    [id : {NoId, Val("uuid", 0, "u-1")},
     article_id : RefIds(articles), user_id : RefIds(users)]

\* typeof id === 'string' && id.includes('-')
HasDash(id) == id.kind = "uuid"

\* The externalId column value computed from record.id: the UUID, else null
\* (the empty string here).
ExternalIdOf(id) == IF HasDash(id) THEN id.s ELSE ""

\* record.name.toLowerCase().replace(/\s+/g, '') (the schema strips username).
Username(name) == IF name = "Al Bo" THEN "albo" ELSE name

\* findUnique on a table by a column: the position (= id) of the row, 0 if none.
FindRow(table, column, value) ==
    IF \E i \in 1..Len(table) : table[i][column] = value
    THEN CHOOSE i \in 1..Len(table) : table[i][column] = value
    ELSE 0

\* What a failed call throws: the error's class name and its message.
Thrown(name, text, field, ref) ==
    [name |-> name, text |-> text, field |-> field, ref |-> ref]

NoError == Thrown("none", "none", "none", NoId)

PrismaError(text) == Thrown("PrismaClientKnownRequestError", text, "none", NoId)

\* The result of an upsert: the table after it and the error thrown (NoError
\* when it returned).
Upserted(table, error) == [table |-> table, error |-> error]

\* A resolution that never consults the store.
ResolveRef_NoLookup(table, field, ref) ==
    [id |-> IF ref.kind \in {"int", "numstr"} THEN ref.n ELSE 1, error |-> NoError]

\* Resolution of a reference to a row of `table` (author_id, article_id,
\* user_id): a UUID is looked up by externalId, a number is the id, and any
\* other string goes through parseInt (NaN for a non-numeric one).  Yields the
\* internal id, or the error thrown.
ResolveRef(table, field, ref) ==
    IF HasDash(ref)
    THEN LET i == FindRow(table, "externalId", ref.s)
         IN IF i = 0
            THEN [id |-> 0, error |-> Thrown("Error", "Foreign key violation", field, ref)]
            ELSE [id |-> i, error |-> NoError]
    ELSE IF ref.kind \in {"int", "numstr"}
         THEN [id |-> ref.n, error |-> NoError]
         ELSE [id |-> 0, error |-> Thrown("Error", "Invalid", field, ref)]

\* The unique index on externalId: another row holds the value.
ExternalIdTaken(table, self, externalId) ==
    /\ externalId # ""
    /\ \E j \in 1..Len(table) : j # self /\ table[j].externalId = externalId

\* repo.upsertUser: keyed by email.
UpsertUser(record) ==
    LET externalId == ExternalIdOf(record.id)
        i == FindRow(users, "email", record.email)
    IN IF ExternalIdTaken(users, i, externalId)
       THEN Upserted(users, PrismaError("Unique constraint failed"))
       ELSE IF i # 0
            THEN Upserted([users EXCEPT ![i].username = Username(record.name),
                                    ![i].externalId = externalId], NoError)
            ELSE Upserted(Append(users, [id |-> Len(users) + 1,
                                     email |-> record.email,
                                     username |-> Username(record.name),
                                     externalId |-> externalId]), NoError)

\* repo.upsertArticle: keyed by slug, the author connected by internal id.
UpsertArticle(record) ==
    LET author == ResolveRef(users, "author_id", record.author_id)
        externalId == ExternalIdOf(record.id)
        i == FindRow(articles, "slug", record.slug)
    IN IF author.error # NoError THEN Upserted(articles, author.error)
       ELSE IF ExternalIdTaken(articles, i, externalId)
       THEN Upserted(articles, PrismaError("Unique constraint failed"))
       ELSE IF author.id > Len(users)
       THEN Upserted(articles, PrismaError("Record to connect not found"))
       ELSE IF i # 0
            THEN Upserted([articles EXCEPT ![i].externalId = externalId,
                                       ![i].authorId = author.id], NoError)
            ELSE Upserted(Append(articles, [id |-> Len(articles) + 1,
                                        slug |-> record.slug,
                                        externalId |-> externalId,
                                        authorId |-> author.id]), NoError)

\* repo.upsertComment: always a create, of body, articleId and authorId only
\* (record.id is not read, the externalId column stays null).
UpsertComment(record) ==
    LET article == ResolveRef(articles, "article_id", record.article_id)
        user == ResolveRef(users, "user_id", record.user_id)
    IN IF article.error # NoError THEN Upserted(comments, article.error)
       ELSE IF user.error # NoError THEN Upserted(comments, user.error)
       ELSE IF article.id > Len(articles) \/ user.id > Len(users)
       THEN Upserted(comments, PrismaError("Foreign key constraint failed"))
       ELSE Upserted(Append(comments, [id |-> Len(comments) + 1,
                                   externalId |-> "",
                                   articleId |-> article.id,
                                   authorId |-> user.id]), NoError)

\* recordError: the ImportError made from what was thrown.
ImportErrorOf(error) ==
    [ errorType |-> IF error.name = "ZodError" THEN "VALIDATION_ERROR" ELSE error.name,
      errorMessage |-> [text |-> error.text, field |-> error.field, ref |-> error.ref] ]

NoImportError == ImportErrorOf(NoError)

ExportedId_InternalOnly(row) == Val("int", row.id, "")

\* row.externalId || row.id
ExportedId(row) ==
    IF row.externalId # "" THEN Val("uuid", 0, row.externalId) ELSE Val("int", row.id, "")

\* parent?.externalId || row.<parent>Id
ExportedRef(table, parentId) ==
    IF parentId \in 1..Len(table) /\ table[parentId].externalId # ""
    THEN Val("uuid", 0, table[parentId].externalId)
    ELSE Val("int", parentId, "")

\* The field-list filter of the formatters: a listed key is copied when the
\* formatted record defines it.
FilterFields(formatted, fields) ==
    [k \in {f \in fields : f \in DOMAIN formatted} |-> formatted[k]]

AllFields == {"*"}

\* Field lists of an export request: any array of strings is accepted.
FieldLists == {AllFields, {"id", "slug"}, {"id", "email"}, {"id", "nickname"}}

\* formatUserRecord.
FormatUserRecord(user, fields) ==
    LET formatted == [ id |-> ExportedId(user),
                       email |-> Val("email", 0, user.email),
                       name |-> Val("name", 0, user.username),
                       role |-> Val("role", 0, ""),
                       active |-> Val("active", 0, ""),
                       created_at |-> Val("time", 0, ""),
                       updated_at |-> Val("time", 0, "") ]
    IN IF fields = AllFields THEN formatted ELSE FilterFields(formatted, fields)

\* formatArticleRecord.
FormatArticleRecord(article, fields) ==
    LET formatted == [ id |-> ExportedId(article),
                       slug |-> Val("slug", 0, article.slug),
                       title |-> Val("text", 0, ""),
                       body |-> Val("text", 0, ""),
                       author_id |-> ExportedRef(users, article.authorId),
                       tags |-> Val("tags", 0, ""),
                       status |-> Val("status", 0, ""),
                       published_at |-> Val("time", 0, "") ]
    IN IF fields = AllFields THEN formatted ELSE FilterFields(formatted, fields)

\* formatCommentRecord.
FormatCommentRecord(comment, fields) ==
    LET formatted == [ id |-> ExportedId(comment),
                       article_id |-> ExportedRef(articles, comment.articleId),
                       user_id |-> ExportedRef(users, comment.authorId),
                       body |-> Val("text", 0, ""),
                       created_at |-> Val("time", 0, "") ]
    IN IF fields = AllFields THEN formatted ELSE FilterFields(formatted, fields)

\* formatRecord.
FormatRecord(resource, record, fields) ==
    CASE resource = "users" -> FormatUserRecord(record, fields)
      [] resource = "articles" -> FormatArticleRecord(record, fields)
      [] OTHER -> FormatCommentRecord(record, fields)

TableOf(resource) ==
    CASE resource = "users" -> users
      [] resource = "articles" -> articles
      [] OTHER -> comments

\* The last operation on the store: what it was, the id the source record
\* carried and the row it wrote (0 if none), the ImportError it recorded, and
\* the field list and the records emitted of an export, and the source
\* record of an import.
Op(op, resource, id, row, error, fields, out, record) ==
    [op |-> op, resource |-> resource, id |-> id, row |-> row,
     error |-> error, fields |-> fields, out |-> out, record |-> record]


\* One item of processBatch on the users resource: the upsert, and recordError
\* when it throws.
ImportUser ==
    \E record \in UserRecords :
       LET r == UpsertUser(record)
       IN /\ users' = r.table
          /\ last' = Op("import", "users", record.id,
                        IF r.error = NoError THEN FindRow(r.table, "email", record.email) ELSE 0,
                        ImportErrorOf(r.error), AllFields, <<>>, record)
          /\ UNCHANGED <<articles, comments>>
          /\ UNCHANGED <<importVars, workerVars, createVars, faults, exportVars, counterVars, statusVars, validated, loops>>

ImportArticle ==
    \E record \in ArticleRecords :
       LET r == UpsertArticle(record)
       IN /\ articles' = r.table
          /\ last' = Op("import", "articles", record.id,
                        IF r.error = NoError THEN FindRow(r.table, "slug", record.slug) ELSE 0,
                        ImportErrorOf(r.error), AllFields, <<>>, record)
          /\ UNCHANGED <<users, comments>>
          /\ UNCHANGED <<importVars, workerVars, createVars, faults, exportVars, counterVars, statusVars, validated, loops>>

ImportComment ==
    /\ Len(comments) < MaxComments
    /\ \E record \in CommentRecords :
          LET r == UpsertComment(record)
          IN /\ comments' = r.table
             /\ last' = Op("import", "comments", record.id,
                           IF r.error = NoError THEN Len(r.table) ELSE 0,
                           ImportErrorOf(r.error), AllFields, <<>>, record)
             /\ UNCHANGED <<users, articles>>
             /\ UNCHANGED <<importVars, workerVars, createVars, faults, exportVars, counterVars, statusVars, validated, loops>>

\* An export of a resource: every row, formatted with the field list of the
\* request, in id order.
ExportResource ==
    \E resource \in {"users", "articles", "comments"}, fields \in FieldLists :
       /\ last' = Op("export", resource, NoId, 0, NoImportError, fields,
                     [i \in 1..Len(TableOf(resource)) |->
                         FormatRecord(resource, TableOf(resource)[i], fields)], <<>>)
       /\ UNCHANGED <<users, articles, comments>>
       /\ UNCHANGED <<importVars, workerVars, createVars, faults, exportVars, counterVars, statusVars, validated, loops>>

\* JSON.parse of an exported user followed by userRecordSchema.parse: the keys
\* of the schema, unknown keys stripped.
ParseExportedUser(exported) ==
    [id |-> exported.id, email |-> exported.email.s, name |-> exported.name.s]

\* An exported user is imported again.
ReimportUser ==
    /\ last.op = "export" /\ last.resource = "users" /\ last.fields = AllFields
    /\ \E i \in 1..Len(last.out) :
          LET record == ParseExportedUser(last.out[i])
              r == UpsertUser(record)
          IN /\ users' = r.table
             /\ last' = Op("reimport", "users", record.id, i,
                           ImportErrorOf(r.error), AllFields, last.out, <<>>)
    /\ UNCHANGED <<articles, comments>>
    /\ UNCHANGED <<importVars, workerVars, createVars, faults, exportVars, counterVars, statusVars, validated, loops>>

\* The source of the last import, which went through, is imported a second
\* time: the same record goes through the same upsert.
ImportAgain ==
    /\ last.op = "import" /\ last.error = NoImportError
    /\ LET r == CASE last.resource = "users" -> UpsertUser(last.record)
                  [] last.resource = "articles" -> UpsertArticle(last.record)
                  [] OTHER -> UpsertComment(last.record)
       IN /\ users' = IF last.resource = "users" THEN r.table ELSE users
          /\ articles' = IF last.resource = "articles" THEN r.table ELSE articles
          /\ comments' = IF last.resource = "comments" THEN r.table ELSE comments
          /\ last' = Op("again", last.resource, NoId,
                        IF r.error = NoError THEN last.row ELSE 0,
                        ImportErrorOf(r.error), AllFields, <<>>, <<>>)
    /\ UNCHANGED <<importVars, workerVars, createVars, faults, exportVars, counterVars, statusVars, validated, loops>>

NextRecords ==
    \/ ImportUser
    \/ ImportArticle
    \/ ImportComment
    \/ ExportResource
    \/ ReimportUser
    \/ ImportAgain

InitRecords ==
    /\ users = <<>>
    /\ articles = <<>>
    /\ comments = <<>>
    /\ last = Op("none", "none", NoId, 0, NoImportError, AllFields, <<>>, <<>>)
    /\ IdleImportVars /\ IdleWorkerVars /\ IdleCreateVars /\ faults = 0
    /\ exportJob = <<>> /\ storeRows = <<>> /\ runs = <<>> /\ dispatch = <<>>
    /\ counterRows = <<>> /\ counterTasks = <<>>
    /\ errorRows = <<>> /\ response = <<>>
    /\ validated = <<>>
    /\ loops = <<>>

SpecRecords == InitRecords /\ [][NextRecords]_vars

\* C11: the ImportError of a record whose external reference cannot be
\* resolved names the reference and the referencing field in its message, and
\* its errorType differs from the errorType of any other upsert failure (here:
\* of the upsert failure recorded next).
C11_ForeignKeyErrorType ==
    [][ (last.op = "import" /\ last.error.errorMessage.text = "Foreign key violation") =>
           /\ HasDash(last.error.errorMessage.ref)
           /\ last.error.errorMessage.field \in {"author_id", "article_id", "user_id"}
           /\ ( /\ last'.op = "import"
                /\ last'.error # NoImportError
                /\ last'.error.errorMessage.text # "Foreign key violation" )
                 => last.error.errorType # last'.error.errorType ]_vars

\* C13: a record of any resource imported with an external identifier is
\* exported (by the export that follows its import) with that identifier as its
\* id, and every reference of an exported record to a row that has an external
\* identifier is exported as that external identifier.
C13_ExternalIdsRoundTrip ==
    [][ last'.op = "export" /\ last'.fields = AllFields =>
          /\ ( /\ last.op = "import" /\ last.error = NoImportError /\ HasDash(last.id)
               /\ last'.resource = last.resource ) =>
                last'.out[last.row].id = last.id
          /\ last'.resource = "articles" =>
                \A i \in 1..Len(articles) :
                   users[articles[i].authorId].externalId # "" =>
                      last'.out[i].author_id = Val("uuid", 0, users[articles[i].authorId].externalId)
          /\ last'.resource = "comments" =>
                \A i \in 1..Len(comments) :
                   /\ users[comments[i].authorId].externalId # "" =>
                         last'.out[i].user_id = Val("uuid", 0, users[comments[i].authorId].externalId)
                   /\ articles[comments[i].articleId].externalId # "" =>
                         last'.out[i].article_id
                            = Val("uuid", 0, articles[comments[i].articleId].externalId) ]_vars

\* C16: with a field list, every exported record has exactly the listed keys.
C16_ExactlyTheListedFields ==
    last.op = "export" /\ last.fields # AllFields =>
       \A i \in 1..Len(last.out) : DOMAIN last.out[i] = last.fields

\* C14: importing an exported user again leaves the user rows as they were: no
\* row is added, and the externalId of every row is unchanged.
C14_UserRoundTrip ==
    [][ last'.op = "reimport" =>
          /\ last'.error = NoImportError
          /\ Len(users') = Len(users)
          /\ \A i \in 1..Len(users) : users'[i].externalId = users[i].externalId
          /\ users' = users ]_vars

\* A user imported with an external identifier was exported and imported again.
C14_Witness ==
    /\ last.op = "reimport"
    /\ last.error = NoImportError
    /\ HasDash(last.id)
    /\ users[last.row].externalId = last.id.s
    /\ Len(users) = 2

(***************************************************************************)
(* Record validation: validateRecord parses a record with the schema of    *)
(* its resource (zod).  A slug is a sequence of characters drawn from one  *)
(* representative of each class the pattern distinguishes; a user record   *)
(* is described by what each of its fields holds.                          *)
(***************************************************************************)
MaxSlugLen == 3

SlugChars == {"a", "1", "A", "-", " ", "_"}

SlugInputs == UNION {[1..n -> SlugChars] : n \in 0..MaxSlugLen}

\* [a-z0-9] under the i flag of the slug pattern: letters of either case
AlnumIgnoreCase(c) == c \in {"a", "1", "A"}

\* /^[a-z0-9]+(?:-[a-z0-9]+)*$/i : non-empty groups of letters and digits
\* joined by single hyphens
SlugRegex(slug) ==
    /\ Len(slug) >= 1
    /\ \A i \in 1..Len(slug) :
        \/ AlnumIgnoreCase(slug[i])
        \/ /\ slug[i] = "-"
           /\ i > 1 /\ i < Len(slug)
           /\ AlnumIgnoreCase(slug[i - 1]) /\ AlnumIgnoreCase(slug[i + 1])

\* articleRecordSchema applied to a record whose other fields are valid
ArticleRecordSchema(record) ==
    [ok |-> SlugRegex(record.slug), out |-> record]

UserInputs ==
    [id : {"absent", "int", "float", "string"},
     email : {"absent", "invalid", "valid"},
     name : {"absent", "empty", "text"},
     role : {"absent", "text"},
     active : {"absent", "true", "false", "string"}]

\* userRecordSchema: id is a required int or string, email a valid address,
\* name a non-empty string, role optional, active a boolean defaulting to true
UserRecordSchema(record) ==
    [ok |-> /\ record.id \in {"int", "string"}
            /\ record.email = "valid"
            /\ record.name = "text"
            /\ record.active \in {"absent", "true", "false"},
     out |-> [record EXCEPT !.active =
                 IF record.active = "absent" THEN "true" ELSE record.active]]

ValidateRecord(resource, record) ==
    IF resource = "users" THEN UserRecordSchema(record)
    ELSE ArticleRecordSchema(record)

Validate_Article ==
    /\ \E slug \in SlugInputs :
        LET record == [slug |-> slug]
            parsed == ValidateRecord("articles", record)
        IN  validated' = [resource |-> "articles", input |-> record,
                          ok |-> parsed.ok, out |-> parsed.out]
    /\ UNCHANGED <<importVars, workerVars, createVars, faults, recordVars, exportVars, counterVars, statusVars, loops>>

Validate_User ==
    /\ \E record \in UserInputs :
        LET parsed == ValidateRecord("users", record)
        IN  validated' = [resource |-> "users", input |-> record,
                          ok |-> parsed.ok, out |-> parsed.out]
    /\ UNCHANGED <<importVars, workerVars, createVars, faults, recordVars, exportVars, counterVars, statusVars, loops>>

NextValidate == Validate_Article \/ Validate_User

InitValidate ==
    /\ validated = [resource |-> "none", input |-> <<>>, ok |-> FALSE, out |-> <<>>]
    /\ faults = 0
    /\ IdleImportVars /\ IdleWorkerVars /\ IdleCreateVars /\ IdleRecordVars
    /\ exportJob = <<>> /\ storeRows = <<>> /\ runs = <<>> /\ dispatch = <<>>
    /\ counterRows = <<>> /\ counterTasks = <<>>
    /\ errorRows = <<>> /\ response = <<>>
    /\ loops = <<>>

SpecValidate == InitValidate /\ [][NextValidate]_vars

\* C21: the article validator accepts a slug exactly when it is lowercase
\* kebab-case (groups of lowercase letters and digits joined by single
\* hyphens); in particular every slug with an uppercase letter or a space is
\* rejected.
C21_SlugAcceptedIffLowercaseKebab ==
    validated.resource = "articles" =>
        LET slug == validated.input.slug
            Lower(c) == c \in {"a", "1"}
            LowercaseKebab ==
                /\ Len(slug) >= 1
                /\ \A i \in 1..Len(slug) :
                    \/ Lower(slug[i])
                    \/ /\ slug[i] = "-" /\ i > 1 /\ i < Len(slug)
                       /\ Lower(slug[i - 1]) /\ Lower(slug[i + 1])
        IN  validated.ok <=> LowercaseKebab

\* C22: the user validator accepts every record with a valid email and a
\* non-empty name, with or without an identifier, role or active flag, and
\* rejects exactly when the email is missing or invalid or the name is missing
\* or empty; an accepted record given without an active flag has active true.
C22_UserAcceptedIffEmailAndName ==
    validated.resource = "users" =>
        /\ validated.ok <=>
            (validated.input.email = "valid" /\ validated.input.name = "text")
        /\ (validated.ok /\ validated.input.active = "absent") =>
            validated.out.active = "true"

\* C23: in every reachable state the stored totalRecords, successCount and
\* errorCount of an import job are not negative, whatever the source holds,
\* an empty file of any format included.
C23_StoredCountsNeverNegative ==
    /\ importJob.totalRecords >= 0
    /\ importJob.successCount >= 0
    /\ importJob.errorCount >= 0

\* C24: after stopWorker the poll loop exits at its next iteration check and
\* starts no further poll cycle; stopWorker neither cancels nor awaits the
\* jobs in flight, which still run to completed or failed.
C24_StopEndsPollingNotJobs ==
    /\ [][ /\ (~isRunning /\ loop.pc = "sleep" /\ loop' # loop)
                => loop'.pc = "exited"
           /\ (~isRunning /\ loop.pc # "init" /\ loop.pc # "queryImports")
                => loop'.pc # "queryImports"
           /\ (isRunning /\ ~isRunning')
                => /\ tasks' = tasks /\ jobStatus' = jobStatus
                   /\ activeJobs' = activeJobs /\ loop' = loop ]_vars
    /\ \A j \in Jobs :
          (~isRunning /\ loop.pc # "init" /\ InFlightOf(j) > 0)
              ~> (jobStatus[j] \in Terminal)
    /\ (~isRunning /\ loop.pc # "init") ~> (loop.pc = "exited")

C24_Witness ==
    /\ ~isRunning /\ loop.pc = "exited"
    /\ \E j \in Jobs : InFlightOf(j) > 0 /\ jobStatus[j] = "processing"

\* C25: when an import whose source is a URL has settled, completed or failed,
\* the staging file of its download no longer exists; the local file a user
\* supplied is never deleted.
C25_StagingFileRemoved ==
    /\ (task.pc = "done" /\ importJob.filePath.kind = "url") => ~env.stagingFile
    /\ "local" \notin env.unlinked

\* C26: a store failure outside the per-record boundary of processBatch (the
\* counter update that ends a flush) propagates to the catch of the job and
\* fails it, for a full-batch flush in the middle of the stream as for the
\* final partial flush; it is never absorbed as the error of a single record.
C26_FlushFailureFailsJob ==
    [][ (task.pc = "batchCounts" /\ faults' = faults + 1)
            => (task'.pc = "catch" /\ task'.raised = "store"
                /\ task'.errorCount = task.errorCount) ]_vars

\* C27: in every format the recordIndex given to the i-th data record of the
\* source (counted from 0; blank lines and the CSV header are not counted) is
\* i, and the recordIndex of an ImportError row is the position of a data
\* record read so far.
C27_RecordIndexIsDataPosition ==
    [][ /\ (/\ Len(env'.source) = Len(env.source) + 1
            /\ IsData(env'.source[Len(env'.source)]))
               => task'.currentIndex = NumRecords
        /\ \A k \in 1..Len(importErrors') :
               importErrors'[k].recordIndex
                   < Cardinality({p \in 1..Len(env'.source) : IsData(env'.source[p])})
      ]_vars

\* C28: the batch never holds more than BATCH_SIZE records and is flushed as
\* soon as it holds BATCH_SIZE (between two records it holds fewer); every
\* validated record is passed to an upsert exactly once and in source order,
\* in every execution, one where a flush raises included, so that a completed
\* import has upserted each valid record.
C28_BatchingUpsertsOnceInOrder ==
    /\ Len(task.batch) <= BATCH_SIZE
    /\ task.pc \in {"ndjsonRead", "csvRead", "jsonLoop"}
           => Len(task.batch) < BATCH_SIZE
    /\ \A a, b \in 1..Len(upsertLog) :
           a < b => upsertLog[a].recordIndex < upsertLog[b].recordIndex
    /\ (task.pc = "done" /\ importJob.status = "completed")
           => {upsertLog[k].recordIndex : k \in 1..Len(upsertLog)}
                  = {AssignedIndex(p) : p \in ValidPositions}

\* C29: in every poll cycle that finds free capacity c > 0 the jobs dispatched
\* are the c oldest pending import jobs that are not already running and,
\* only when these are fewer than c, the oldest pending export jobs that are
\* not already running, up to the capacity left: no pending import is passed
\* over in favour of an export.
C29_ImportsBeforeExports ==
    [][ (loop.pc = "queryExports" /\ loop'.pc = "sleep" /\ tasks' # tasks) =>
          LET c == loop.availableSlots
              Eligible(table) ==
                  {IdOf(j) : j \in {x \in Jobs : /\ x[1] = table
                                                /\ jobStatus[x] = "pending"
                                                /\ InFlightOf(x) = 0}}
              Dispatched(table) ==
                  {IdOf(j) : j \in {x \in Jobs : /\ x[1] = table
                                                /\ tasks'[x].starting > tasks[x].starting}}
              imports == Range(TakeAsc(Eligible("import"), c))
          IN /\ Dispatched("import") = imports
             /\ Dispatched("export")
                  = Range(TakeAsc(Eligible("export"), c - Cardinality(imports)))
      ]_vars

C31_ReferenceResolution ==
    [][ (last'.op = "import" /\ last'.resource \in {"articles", "comments"}) =>
          LET parents == IF last'.resource = "articles" THEN <<users>>
                         ELSE <<articles, users>>
              written == IF last'.resource = "articles" THEN articles'[last'.row]
                         ELSE comments'[last'.row]
              linked == IF last'.resource = "articles" THEN <<written.authorId>>
                        ELSE <<written.articleId, written.authorId>>
              refs == IF last'.resource = "articles" THEN <<last'.record.author_id>>
                      ELSE <<last'.record.article_id, last'.record.user_id>>
          IN \A k \in 1..Len(refs) :
                LET ref == refs[k]
                    found == FindRow(parents[k], "externalId", ref.s)
                IN /\ (ref.kind \in {"int", "numstr"} /\ last'.row # 0)
                        => linked[k] = ref.n
                   /\ (HasDash(ref) /\ found # 0 /\ last'.row # 0)
                        => linked[k] = found
                   /\ (HasDash(ref) /\ found = 0)
                        => /\ last'.row = 0
                           /\ last'.error # NoImportError
                           /\ articles' = articles /\ comments' = comments ]_vars

C31_Witness ==
    /\ last.op = "import" /\ last.resource = "comments" /\ last.row # 0
    /\ HasDash(last.record.article_id) /\ last.record.user_id.kind = "numstr"
    /\ comments[last.row].articleId
           = FindRow(articles, "externalId", last.record.article_id.s)

\* C32: once the task of a job has settled, whether it succeeded or failed at
\* any step, the initial transition to processing included, the metrics
\* tracker holds no entry for the job.
C32_MetricsClearedOnSettle ==
    task.pc = "done" => 1 \notin env.metrics

\* C33: the active set always holds exactly one entry per task in flight: its
\* size is the number of dispatched import and export jobs whose tasks have
\* not settled, also when an import job and an export job have the same id.
C33_ActiveSetCountsTasksInFlight ==
    Cardinality(activeJobs) = SumInFlight(Jobs)

\* C34: within one worker process no job is started more than once: a poll
\* dispatches a job only if the job is still pending and no task of an earlier
\* dispatch of it is in flight.
C34_NoJobStartedTwice ==
    [][ \A j \in Jobs :
           tasks'[j].starting > tasks[j].starting
               => (InFlightOf(j) = 0 /\ jobStatus[j] = "pending") ]_vars

(***************************************************************************)
(* startWorker and stopWorker called any number of times: every call of    *)
(* startWorker that finds the flag down raises it and runs its own while   *)
(* loop; all loops read the one module-level flag isRunning.               *)
(***************************************************************************)
MaxLoops == 4

\* A while loop: where it stands, and whether stopWorker was called during
\* its life (history).
LoopFrame(pc, stopped) == [pc |-> pc, stopped |-> stopped]

\* startWorker: returns at once when the flag is up, else raises it and
\* enters the loop (the first poll cycle).
Loops_StartWorker ==
    /\ Len(loops) < MaxLoops
    /\ IF isRunning
       THEN UNCHANGED <<isRunning, loops>>
       ELSE /\ isRunning' = TRUE
            /\ loops' = Append(loops, LoopFrame("polling", FALSE))
    /\ UNCHANGED <<activeJobs, loop, jobStatus, tasks>>
    /\ UNCHANGED <<importVars, createVars, faults, recordVars, exportVars, counterVars, statusVars, validated>>

\* stopWorker: lowers the flag.
Loops_StopWorker ==
    /\ isRunning' = FALSE
    /\ loops' = [k \in 1..Len(loops) |->
                   IF loops[k].pc = "exited" THEN loops[k]
                   ELSE [loops[k] EXCEPT !.stopped = TRUE]]
    /\ UNCHANGED <<activeJobs, loop, jobStatus, tasks>>
    /\ UNCHANGED <<importVars, createVars, faults, recordVars, exportVars, counterVars, statusVars, validated>>

\* The poll cycle of a loop ends and the loop sleeps.
Loops_Sleep(k) ==
    /\ loops[k].pc = "polling"
    /\ loops' = [loops EXCEPT ![k].pc = "sleeping"]
    /\ UNCHANGED workerVars
    /\ UNCHANGED <<importVars, createVars, faults, recordVars, exportVars, counterVars, statusVars, validated>>

\* The sleep of a loop ends and the loop reads the while condition.
Loops_Wake(k) ==
    /\ loops[k].pc = "sleeping"
    /\ loops' = [loops EXCEPT ![k].pc = IF WhileCondition(isRunning) THEN "polling"
                                        ELSE "exited"]
    /\ UNCHANGED workerVars
    /\ UNCHANGED <<importVars, createVars, faults, recordVars, exportVars, counterVars, statusVars, validated>>

NextLoops ==
    \/ Loops_StartWorker
    \/ Loops_StopWorker
    \/ \E k \in 1..Len(loops) : Loops_Sleep(k)
    \/ \E k \in 1..Len(loops) : Loops_Wake(k)

InitLoops ==
    /\ loops = <<>>
    /\ faults = 0
    /\ IdleImportVars /\ IdleWorkerVars /\ IdleCreateVars /\ IdleRecordVars
    /\ exportJob = <<>> /\ storeRows = <<>> /\ runs = <<>> /\ dispatch = <<>>
    /\ counterRows = <<>> /\ counterTasks = <<>>
    /\ errorRows = <<>> /\ response = <<>>
    /\ validated = <<>>

SpecLoops == InitLoops /\ [][NextLoops]_vars

\* C35: for any sequence of startWorker and stopWorker calls at most one poll
\* loop is polling at any time: startWorker while a loop is running starts
\* nothing, and a loop that was stopped never polls again after a later
\* startWorker.
C35_AtMostOnePollLoop ==
    /\ [](Cardinality({k \in 1..Len(loops) : loops[k].pc = "polling"}) <= 1)
    /\ [][ /\ isRunning => Len(loops') = Len(loops)
           /\ \A k \in 1..Len(loops) :
                 (loops[k].stopped /\ loops[k].pc = "sleeping")
                     => loops'[k].pc # "polling" ]_vars

\* C36: when two import-job creation requests with the same idempotency key
\* have both ended, however they interleaved (both lookups before either
\* insert included), both returned the same job id, neither failed, and
\* exactly one job row holds the key.
C36_InterleavedCreation ==
    \A r1, r2 \in 1..Len(requests) :
       ( /\ r1 # r2
         /\ requests[r1].type = "import" /\ requests[r2].type = "import"
         /\ requests[r1].idempotencyKey = requests[r2].idempotencyKey
         /\ requests[r1].raised # "Invalid resource type"
         /\ requests[r2].raised # "Invalid resource type"
         /\ requests[r1].pc \in {"returned", "thrown"}
         /\ requests[r2].pc \in {"returned", "thrown"} )
       => /\ requests[r1].pc = "returned" /\ requests[r2].pc = "returned"
          /\ requests[r1].result = requests[r2].result
          /\ Cardinality({i \in 1..Len(importJobRows) :
                             importJobRows[i] = requests[r1].idempotencyKey}) = 1

\* C37: once a user or article row has an externalId, an upsert changes it
\* only when the incoming record carries a different external identifier,
\* which then becomes the externalId of the row: it is never set to null, so
\* a reference by that external id that resolved before still resolves.
C37_ExternalIdStable ==
    [][ /\ \A i \in 1..Len(users) :
              (users[i].externalId # "" /\ users'[i].externalId # users[i].externalId)
                  => (HasDash(last'.id) /\ users'[i].externalId = last'.id.s)
        /\ \A i \in 1..Len(articles) :
              (articles[i].externalId # ""
                  /\ articles'[i].externalId # articles[i].externalId)
                  => (HasDash(last'.id) /\ articles'[i].externalId = last'.id.s)
      ]_vars

\* C39: importing the same source a second time leaves the store with the
\* domain rows of the first import, for users, articles and comments alike:
\* the second import creates no additional row.
C39_SecondImportAddsNoRow ==
    [][ (last'.op = "again" /\ last.error = NoImportError) =>
           /\ Len(users') = Len(users)
           /\ Len(articles') = Len(articles)
           /\ Len(comments') = Len(comments)
           /\ users' = users /\ articles' = articles /\ comments' = comments ]_vars

\* ------------------------------------------------- export, changing store
\* Other requests write the exported table while the cursor of an export job
\* pages through it: the cursor's findMany calls are separate statements, with
\* no transaction or snapshot around them. updatedAt is 0 for a row as it was
\* before the export and the time of the write for a row inserted or updated
\* since.
ExportPaging == \E r \in 1..NRuns : runs[r].pc \in {"query", "yield"}

\* The time of the next write, after every write still visible in the table.
Clock ==
    LET times == {storeRows[k].updatedAt : k \in 1..Len(storeRows)} \cup {0}
    IN 1 + CHOOSE t \in times : \A u \in times : u <= t

\* The ids of the table's sequence ascend: a new row follows every row.
NextRowId == IF storeRows = <<>> THEN 1 ELSE storeRows[Len(storeRows)].id + 1

Store_Insert ==
    /\ ExportPaging
    /\ Clock <= MaxChanges
    /\ NextRowId <= MaxRows + 1
    /\ \E a \in BOOLEAN :
          storeRows' = Append(storeRows, [id |-> NextRowId, active |-> a, updatedAt |-> Clock])
    /\ UNCHANGED <<exportJob, runs, dispatch, faults>>
    /\ UNCHANGED <<importVars, workerVars, createVars, recordVars, counterVars, statusVars, validated, loops>>

Store_Update ==
    /\ ExportPaging
    /\ Clock <= MaxChanges
    /\ \E k \in 1..Len(storeRows), a \in BOOLEAN :
          storeRows' = [storeRows EXCEPT ![k] = [@ EXCEPT !.active = a, !.updatedAt = Clock]]
    /\ UNCHANGED <<exportJob, runs, dispatch, faults>>
    /\ UNCHANGED <<importVars, workerVars, createVars, recordVars, counterVars, statusVars, validated, loops>>

Store_Delete ==
    /\ ExportPaging
    /\ \E k \in 1..Len(storeRows) :
          storeRows' = SubSeq(storeRows, 1, k - 1) \o SubSeq(storeRows, k + 1, Len(storeRows))
    /\ UNCHANGED <<exportJob, runs, dispatch, faults>>
    /\ UNCHANGED <<importVars, workerVars, createVars, recordVars, counterVars, statusVars, validated, loops>>

NextExportChanging ==
    \/ Poll_DispatchExport
    \/ \E r \in 1..NRuns :
          \/ ProcessExportJob_Start(r)
          \/ Cursor_Query(r)
          \/ Cursor_Yield(r)
          \/ ProcessExportJob_Complete(r)
          \/ ProcessExportJob_Catch(r)
          \/ ExportTask_Finally(r)
    \/ Store_Insert
    \/ Store_Update
    \/ Store_Delete

\* An export job of POST /v1/exports, no import job of the same id.
InitExportChanging ==
    /\ InitExport
    /\ exportJob.request = "POST"
    /\ exportJob.format = "ndjson"
    /\ dispatch.import = "none"

SpecExportChanging == InitExportChanging /\ [][NextExportChanging]_vars

\* The number of times the run wrote the record of the id.
TimesEmitted(run, id) ==
    Cardinality({k \in 1..Len(Emitted(run)) : Emitted(run)[k] = id})

\* C38: while other rows of the table are inserted, updated or deleted during
\* an export, every row that matches the filter and was not itself modified
\* is emitted exactly once by a cursor that has returned, and is never
\* emitted twice.
C38_UnmodifiedRowsEmittedOnce ==
    \A r \in 1..NRuns :
       \A k \in 1..Len(storeRows) :
          LET row == storeRows[k]
              filters == IF runs[r].direct THEN "none" ELSE exportJob.filters IN
          (row.updatedAt = 0 /\ Matches(filters, row)) =>
             /\ TimesEmitted(runs[r], row.id) <= 1
             /\ CursorDone(runs[r]) => TimesEmitted(runs[r], row.id) = 1

\* C40: no job is dispatched after the termination signal was received
\* (stopWorker has lowered isRunning), also when the signal arrives while a
\* poll cycle waits for its pending-job queries.
C40_NoDispatchAfterStop ==
    [][ (~isRunning /\ loop.pc # "init")
           => \A j \in Jobs : tasks'[j].starting <= tasks[j].starting ]_vars

====
